---- MODULE Spec2Model ----
(***************************************************************************)
(* A model of the image annotation editor: the annotation store            *)
(* (hooks/useAnnotations), the handlers of App.tsx that call it, and the   *)
(* canvas component (components/AnnotationCanvas.tsx).                     *)
(*                                                                         *)
(* React semantics used throughout.  A handler is a closure created by a   *)
(* render: the `annotations` and `nextNumber` it reads are the values of   *)
(* that render, while a functional updater (setX(prev => ...)) is applied  *)
(* to the queued state.  One action of the model is one event handler run  *)
(* to completion followed by the render that publishes the new state, so   *)
(* at the start of every action the closure equals the state.              *)
(***************************************************************************)
EXTENDS Integers, Sequences, FiniteSets, TLC

VARIABLES
    annotations,   \* useAnnotations: Annotation[]
    nextNumber,    \* useAnnotations: number given to the next annotation
    history,       \* useAnnotations: undo stack of whole-list snapshots
    redoStack,     \* useAnnotations: redo stack, next entry first
    nextId,        \* source of fresh ids (`annotation-${Date.now()}-${Math.random()}`)
    showGallery,   \* App: the gallery is shown, no project is open
    imageWidth,    \* App: currentImage.width, 0 while currentImage is null
    imageHeight,   \* App: currentImage.height, 0 while currentImage is null
    currentProjectId, \* App: id of the open project, NoProject while none is open
    autoSaved,     \* per project id: what the auto-save effect last wrote for it, if anything
    title,         \* App: title of the open project, "" while none is open
    editingTitle,  \* AnnotationCanvas: the title above the image is being edited
    editingHeaderTitle, \* AnnotationCanvas: the project name in the header is being edited
    tool,          \* App: selectedTool
    selectedId,    \* App: id of the selected annotation, or NoId
    drawing,       \* AnnotationCanvas: a draw gesture is in progress
    start,         \* AnnotationCanvas: where the draw gesture began, or null
    end,           \* AnnotationCanvas: where the draw gesture is now, or null
    pencilPath,    \* AnnotationCanvas: points of the freehand stroke being drawn
    dragOffset,    \* AnnotationCanvas: grab offset of a drag begun by hit-test, or null
    resizing,      \* AnnotationCanvas: { id, corner } of the resize in progress, or null
    dragging,      \* AnnotationCanvas: { id, type, offset } of a shape or label drag, or null
    editingLabelId,\* AnnotationCanvas: id of the label being edited, or NoId
    editingText,   \* AnnotationCanvas: text of the label editor
    inputPos,      \* AnnotationCanvas: the editor has a position ("set") or not ("null")
    timers,        \* pending setTimeout(..., 100) callbacks of handleMouseUp, oldest first
    pointer,       \* the mouse: button state, what it was pressed on, what is due next
    events,        \* number of mouse and keyboard events so far
    gesture,       \* observer: the drag gesture under way or just completed
    probe,         \* observer: a run of n mutating calls, then undos, then redos
    lastAdd,       \* observer: number given by the last add and the greatest given before it
    lastMut        \* observer: the list right before the last mutating call

storeVars == <<annotations, nextNumber, history, redoStack, nextId, showGallery>>
imageVars == <<imageWidth, imageHeight, currentProjectId, autoSaved>>
titleVars == <<title, editingTitle, editingHeaderTitle>>
canvasVars == <<tool, selectedId, drawing, start, end, pencilPath, dragOffset, resizing,
                dragging, editingLabelId, editingText, inputPos, timers, pointer, events>>
obsVars == <<probe, lastAdd, lastMut, gesture>>
vars == <<storeVars, imageVars, titleVars, canvasVars, obsVars>>

----------------------------------------------------------------------------
(* Bounds *)
MaxHist == 3        \* undo-stack length at which the store model stops pushing
MaxIds == 3         \* ids handed out in one behaviour
MaxLoad == 2        \* annotations of a saved project
MaxLabels == 3      \* annotations of a project whose layout is examined
MaxEvents == 5      \* mouse and keyboard events of one behaviour of the canvas model

NoId == 0

\* Titles: none, the default title of handleImageFile, a title given by the user
NoTitle == ""
UntitledTitle == "Untitled Project 1"
Titles == {NoTitle, UntitledTitle, "Plan"}

\* title.startsWith('Untitled Project') || !title
autoFocusTitle(t) == t \in {NoTitle, UntitledTitle}

\* Lengths are in sixtieths of a pixel, so that the halves, the /15 and /30,
\* the 0.6 and 1.2 factors and the elbow steps of the code are whole numbers.
PX == 2 * 30
px(n) == n * PX

\* A text is the sequence of the lengths of the words text.split(/\s+/)
\* yields; <<>> is the empty string.
Texts == {<<>>, <<1>>}

----------------------------------------------------------------------------
(* types/annotation.ts *)
NoLabelPosition == <<>>

Point(x0, y0) == [x |-> x0, y |-> y0]

Annotation(id, type, number, position, size, text) ==
    [id |-> id, type |-> type, number |-> number,
     position |-> position, size |-> size,
     color |-> "#2563eb", text |-> text, alignment |-> "left",
     labelPosition |-> NoLabelPosition, points |-> <<>>]

Last(s) == s[Len(s)]
Front(s) == SubSeq(s, 1, Len(s) - 1)

----------------------------------------------------------------------------
(* hooks/useAnnotations.  st is the queued state of the four useState      *)
(* cells, cl the closure of the render the handler was created in.         *)
StoreState == [annotations |-> annotations, nextNumber |-> nextNumber,
               history |-> history, redoStack |-> redoStack]

Closure == [annotations |-> annotations, nextNumber |-> nextNumber]

newAnnotation(cl, annotation, id) ==
    [annotation EXCEPT !.id = id, !.number = cl.nextNumber]

addAnnotation(st, cl, annotation, id) ==
    [annotations |-> Append(st.annotations, newAnnotation(cl, annotation, id)),
     nextNumber  |-> st.nextNumber + 1,
     history     |-> Append(st.history, cl.annotations),
     redoStack   |-> <<>>]

\* { ...annotation, ...updates }
Merge(annotation, updates) ==
    [f \in DOMAIN annotation |->
        IF f \in DOMAIN updates THEN updates[f] ELSE annotation[f]]

updateAnnotation(st, cl, id, updates) ==
    [annotations |-> [i \in DOMAIN st.annotations |->
                        IF st.annotations[i].id = id
                        THEN Merge(st.annotations[i], updates)
                        ELSE st.annotations[i]],
     nextNumber  |-> st.nextNumber,
     history     |-> Append(st.history, cl.annotations),
     redoStack   |-> <<>>]

RECURSIVE Without(_, _)
Without(list, id) ==
    IF list = <<>> THEN <<>>
    ELSE IF Head(list).id = id THEN Without(Tail(list), id)
    ELSE <<Head(list)>> \o Without(Tail(list), id)

\* a delete that closes the gap in the numbers
deleteAnnotationMutant(st, cl, id) ==
    [annotations |-> [i \in DOMAIN Without(st.annotations, id) |->
                        [Without(st.annotations, id)[i] EXCEPT !.number = i]],
     nextNumber  |-> st.nextNumber,
     history     |-> Append(st.history, cl.annotations),
     redoStack   |-> <<>>]

deleteAnnotation(st, cl, id) ==
    [annotations |-> Without(st.annotations, id),
     nextNumber  |-> st.nextNumber,
     history     |-> Append(st.history, cl.annotations),
     redoStack   |-> <<>>]

clearAnnotationsMutant(st, cl) ==
    [annotations |-> <<>>,
     nextNumber  |-> st.nextNumber,
     history     |-> Append(st.history, cl.annotations),
     redoStack   |-> <<>>]

clearAnnotations(st, cl) ==
    [annotations |-> <<>>,
     nextNumber  |-> 1,
     history     |-> Append(st.history, cl.annotations),
     redoStack   |-> <<>>]

undoMutant(st, cl) ==
    IF st.history = <<>> THEN st
    ELSE [annotations |-> Last(st.history),
          nextNumber  |-> st.nextNumber,
          history     |-> Front(st.history),
          redoStack   |-> <<Last(st.history)>> \o st.redoStack]

undo(st, cl) ==
    IF st.history = <<>> THEN st
    ELSE [annotations |-> Last(st.history),
          nextNumber  |-> st.nextNumber,
          history     |-> Front(st.history),
          redoStack   |-> <<cl.annotations>> \o st.redoStack]

\* a redo that pushes a snapshot also when there is nothing to restore
redoMutant(st, cl) ==
    IF st.redoStack = <<>> THEN [st EXCEPT !.history = Append(@, cl.annotations)]
    ELSE [annotations |-> Head(st.redoStack),
          nextNumber  |-> st.nextNumber,
          history     |-> Append(st.history, cl.annotations),
          redoStack   |-> Tail(st.redoStack)]

redo(st, cl) ==
    IF st.redoStack = <<>> THEN st
    ELSE [annotations |-> Head(st.redoStack),
          nextNumber  |-> st.nextNumber,
          history     |-> Append(st.history, cl.annotations),
          redoStack   |-> Tail(st.redoStack)]

\* The render after the handler publishes the queued state.
Commit(st) ==
    /\ annotations' = st.annotations
    /\ nextNumber' = st.nextNumber
    /\ history' = st.history
    /\ redoStack' = st.redoStack

----------------------------------------------------------------------------
(* components/AnnotationCanvas.tsx: margins and label layout.  These are   *)
(* the values one render computes from the annotations and the image size. *)
Max(a, b) == IF a >= b THEN a ELSE b
Min(a, b) == IF a <= b THEN a ELSE b
Abs(a) == IF a >= 0 THEN a ELSE -a

RECURSIVE SeqMax(_, _)
SeqMax(s, default) ==
    IF s = <<>> THEN default
    ELSE IF Len(s) = 1 THEN s[1]
    ELSE Max(Head(s), SeqMax(Tail(s), default))

RECURSIVE SeqSum(_)
SeqSum(s) == IF s = <<>> THEN 0 ELSE Head(s) + SeqSum(Tail(s))

maxWordsPerLine == 6
placeholderText == <<3, 7>>            \* 'Add note...'

\* ann.text || 'Add note...'
labelText(ann) == IF ann.text = <<>> THEN placeholderText ELSE ann.text

\* words.slice(i, i + maxWordsPerLine).join(' ').length
lineLength(words) == IF words = <<>> THEN 0 ELSE SeqSum(words) + Len(words) - 1

\* The wrapped lines of a text, each given by its length in characters.
RECURSIVE getLabelWrappedLines(_)
getLabelWrappedLines(words) ==
    IF Len(words) <= maxWordsPerLine THEN <<lineLength(words)>>
    ELSE <<lineLength(SubSeq(words, 1, maxWordsPerLine))>>
         \o getLabelWrappedLines(SubSeq(words, maxWordsPerLine + 1, Len(words)))

minLabelFontSize == 18
maxLabelFontSize == 28

\* Math.max(18, Math.min(28, Math.round(imageHeight / 35)))
labelFontSize(imgH) ==
    Max(px(minLabelFontSize),
        Min(px(maxLabelFontSize), px((2 * imgH + 35 * PX) \div (70 * PX))))

approxCharWidth(imgH) == (labelFontSize(imgH) * 6) \div 10
lineHeight(imgH) == (labelFontSize(imgH) * 12) \div 10

labelEdgeBuffer == 40
labelBoxPadding == 24
minLeftBoxWidth == 180
minRightBoxWidth == 100

\* Math.max(minBoxWidth, longest line * approxCharWidth + 24)
labelBoxWidthOf(ann, minBoxWidth, imgH) ==
    Max(px(minBoxWidth),
        SeqMax(getLabelWrappedLines(labelText(ann)), 0) * approxCharWidth(imgH)
          + px(labelBoxPadding))

\* ann.position.x + (ann.size?.width || 0) / 2 < imageWidth / 2
leftLabels(anns, imgW) ==
    SelectSeq(anns, LAMBDA ann : 2 * ann.position.x + ann.size.width < imgW)
rightLabels(anns, imgW) ==
    SelectSeq(anns, LAMBDA ann : 2 * ann.position.x + ann.size.width >= imgW)

maxLeftLabelBoxWidth(anns, imgW, imgH) ==
    LET l == leftLabels(anns, imgW)
    IN SeqMax([i \in DOMAIN l |-> labelBoxWidthOf(l[i], minLeftBoxWidth, imgH)], 0)

maxRightLabelBoxWidth(anns, imgW, imgH) ==
    LET r == rightLabels(anns, imgW)
    IN SeqMax([i \in DOMAIN r |-> labelBoxWidthOf(r[i], minRightBoxWidth, imgH)], 0)

\* the margin without the buffer
leftMarginMutant(anns, imgW, imgH) == maxLeftLabelBoxWidth(anns, imgW, imgH)

leftMargin(anns, imgW, imgH) ==
    maxLeftLabelBoxWidth(anns, imgW, imgH) + px(labelEdgeBuffer)
rightMargin(anns, imgW, imgH) ==
    maxRightLabelBoxWidth(anns, imgW, imgH) + px(labelEdgeBuffer)

titleHeight == 80
marginLabelPadding == 40
maxAvailableHeight == 800

topMargin(anns, imgH) ==
    LET allLabelYs == [i \in DOMAIN anns |->
                          anns[i].position.y + anns[i].size.height \div 2]
        maxLabelY == SeqMax(allLabelYs, imgH)
        minTopSpace == Max(px(marginLabelPadding + titleHeight),
                           imgH \div 30 + px(titleHeight))
        minBottomSpace == Max(Max(px(marginLabelPadding), imgH \div 15),
                              maxLabelY - imgH \div 2 + px(marginLabelPadding))
        totalLabelSpace == minTopSpace + minBottomSpace
        availableSpace == px(maxAvailableHeight) - imgH
    IN IF availableSpace >= totalLabelSpace
       THEN minTopSpace + (availableSpace - totalLabelSpace) \div 2
       ELSE minTopSpace

minBadgeRadius == 20
maxBadgeRadius == 40

\* Math.max(20, Math.min(40, Math.round(imageWidth * 0.045)))
badgeRadius(imgW) ==
    Max(px(minBadgeRadius),
        Min(px(maxBadgeRadius), px((2 * 45 * imgW + 1000 * PX) \div (2000 * PX))))

\* The frame of one render: margins, surface size, image origin, font.
Frame(anns, imgW, imgH) ==
    LET lm == leftMargin(anns, imgW, imgH)
        rm == rightMargin(anns, imgW, imgH)
        tm == topMargin(anns, imgH)
    IN [imageWidth |-> imgW, imageHeight |-> imgH,
        leftMargin |-> lm, rightMargin |-> rm,
        svgWidth |-> lm + imgW + rm, svgHeight |-> imgH + tm,
        imageX |-> lm, imageY |-> tm,
        labelFontSize |-> labelFontSize(imgH),
        badgeRadius |-> badgeRadius(imgW)]

getAnnotationCenter(ann, fr) ==
    IF ann.type \in {"rectangle", "circle"}
    THEN Point(ann.position.x + ann.size.width \div 2 + fr.imageX,
               ann.position.y + ann.size.height \div 2 + fr.imageY)
    ELSE IF ann.type = "pencil" /\ Len(ann.points) > 0
    THEN Point(ann.points[1].x, ann.points[1].y)
    ELSE Point(ann.position.x + fr.imageX, ann.position.y + fr.imageY)

labelPadding == 12
minGap == 4

getLabelInfo(ann, fr) ==
    LET lines == getLabelWrappedLines(labelText(ann))
    IN [ann |-> ann, lines |-> lines,
        height |-> Len(lines) * lineHeight(fr.imageHeight) + px(labelPadding)]

\* Array.prototype.sort with (a, b) => center(a).y - center(b).y: stable
RECURSIVE InsertByY(_, _, _)
InsertByY(sorted, info, fr) ==
    IF sorted = <<>> THEN <<info>>
    ELSE IF getAnnotationCenter(Head(sorted).ann, fr).y <= getAnnotationCenter(info.ann, fr).y
    THEN <<Head(sorted)>> \o InsertByY(Tail(sorted), info, fr)
    ELSE <<info>> \o sorted

RECURSIVE SortByY(_, _)
SortByY(infos, fr) ==
    IF infos = <<>> THEN <<>>
    ELSE InsertByY(SortByY(Front(infos), fr), Last(infos), fr)

isLeftOfMutant(ann, fr) == 2 * getAnnotationCenter(ann, fr).x < fr.imageWidth

\* center.x < imageWidth / 2 + imageX
isLeftOf(ann, fr) == 2 * getAnnotationCenter(ann, fr).x < fr.imageWidth + 2 * fr.imageX

leftInfos(anns, fr) ==
    LET l == SelectSeq(anns, LAMBDA ann : isLeftOf(ann, fr))
    IN SortByY([i \in DOMAIN l |-> getLabelInfo(l[i], fr)], fr)

rightInfos(anns, fr) ==
    LET r == SelectSeq(anns, LAMBDA ann : ~isLeftOf(ann, fr))
    IN SortByY([i \in DOMAIN r |-> getLabelInfo(r[i], fr)], fr)

\* Step 1 of placeLabels: natural y, pushed below the previous label.
RECURSIVE naturalPositions(_, _)
naturalPositions(arr, fr) ==
    IF arr = <<>> THEN <<>>
    ELSE LET availableTop == fr.imageY
             availableBottom == fr.imageY + fr.imageHeight
             before == naturalPositions(Front(arr), fr)
             i == Len(arr)
             centerY == getAnnotationCenter(arr[i].ann, fr).y
             naturalY == Max(availableTop, Min(centerY, availableBottom - arr[i].height))
         IN IF i = 1 THEN <<naturalY>>
            ELSE Append(before,
                        Max(naturalY, before[i - 1] + arr[i - 1].height + px(minGap)))

shiftUpMutant(positions, overflow, availableTop) == positions

\* Step 2 of placeLabels: if the last label overflows, shift all up.
shiftUp(positions, overflow, availableTop) ==
    [i \in DOMAIN positions |-> Max(availableTop, positions[i] - overflow)]

placeLabels(arr, fr) ==
    LET positions == naturalPositions(arr, fr)
        availableTop == fr.imageY
        availableBottom == fr.imageY + fr.imageHeight
    IN IF arr = <<>> THEN positions
       ELSE LET lastBottom == Last(positions) + Last(arr).height
                overflow == lastBottom - availableBottom
            IN IF overflow > 0 THEN shiftUp(positions, overflow, availableTop)
               ELSE positions

----------------------------------------------------------------------------
(* components/AnnotationCanvas.tsx: connectors.  Quotients that are not    *)
(* whole are cut to the length unit.                                       *)
Sgn(a) == IF a > 0 THEN 1 ELSE IF a < 0 THEN -1 ELSE 0

RECURSIVE SqrtSearch(_, _, _)
SqrtSearch(n, lo, hi) ==
    IF lo >= hi THEN lo
    ELSE LET mid == (lo + hi + 1) \div 2
         IN IF mid * mid <= n THEN SqrtSearch(n, mid, hi)
            ELSE SqrtSearch(n, lo, mid - 1)

\* Math.sqrt
Sqrt(n) == SqrtSearch(n, 0, Min(n, 46340))

NaNPoint == [x |-> 0, y |-> 0, nan |-> TRUE]

getBadgeCenter(ann, labelBadgeX, labelBadgeY, fr) ==
    IF ann.type = "rectangle"
    THEN LET w == ann.size.width
             h == ann.size.height
             cx == ann.position.x + fr.imageX + w \div 2
             cy == ann.position.y + fr.imageY + h \div 2
             dx == labelBadgeX - cx
             dy == labelBadgeY - cy
         IN IF Abs(dx) * h > Abs(dy) * w
            THEN \* intersect with left/right: ty = (dy / dx) * tx
                 LET tx == IF dx > 0 THEN w \div 2 ELSE -(w \div 2)
                 IN Point(cx + tx, cy + Sgn(dy) * ((Abs(dy) * (w \div 2)) \div Abs(dx)))
            ELSE IF dy = 0 THEN NaNPoint     \* 0 / 0
            ELSE \* intersect with top/bottom: tx = (dx / dy) * ty
                 LET ty == IF dy > 0 THEN h \div 2 ELSE -(h \div 2)
                 IN Point(cx + Sgn(dx) * ((Abs(dx) * (h \div 2)) \div Abs(dy)), cy + ty)
    ELSE IF ann.type = "circle"
    THEN LET cx == ann.position.x + ann.size.width \div 2 + fr.imageX
             cy == ann.position.y + ann.size.height \div 2 + fr.imageY
             rx == ann.size.width \div 2
             ry == ann.size.height \div 2
             dx == labelBadgeX - cx
             dy == labelBadgeY - cy
             root == Sqrt(dx * dx + dy * dy)
             len == IF root = 0 THEN 1 ELSE root
         IN Point(cx + Sgn(dx) * ((Abs(dx) * rx) \div len),
                  cy + Sgn(dy) * ((Abs(dy) * ry) \div len))
    ELSE IF ann.type = "solid-circle"
    THEN Point(ann.position.x + ann.size.width \div 2 + fr.imageX,
               ann.position.y + ann.size.height \div 2 + fr.imageY)
    ELSE IF ann.type = "pencil" /\ Len(ann.points) > 0
    THEN Point(ann.points[1].x, ann.points[1].y)
    ELSE Point(ann.position.x + fr.imageX, ann.position.y + fr.imageY)

\* a label with its placed y
withY(info, y, isLeft) ==
    [ann |-> info.ann, lines |-> info.lines, height |-> info.height,
     y |-> y, isLeft |-> isLeft]

\* the labels of the two sides with their placed ys, sorted by anchor y
mergeSides(left, leftYs, right, rightYs, fr) ==
    SortByY([i \in DOMAIN left |-> withY(left[i], leftYs[i], TRUE)]
            \o [i \in DOMAIN right |-> withY(right[i], rightYs[i], FALSE)], fr)

placeSides(left, right, fr) ==
    mergeSides(left, placeLabels(left, fr), right, placeLabels(right, fr), fr)

\* left and right, each with its placed y, merged and sorted by anchor y
labelRenderList(anns, fr) == placeSides(leftInfos(anns, fr), rightInfos(anns, fr), fr)

leftBoxSafeGap == 16
rightBoxSafeGap == 8
minLabelTextWidth == 40
labelBadgeGap == 4
elbowSpread == 80
bendThreshold == 40
maxCurveRadius == 32

connectorPathMutant(badgeStart, midwayX, connectorEnd) ==
    << [cmd |-> "M", to |-> badgeStart],
       [cmd |-> "L", to |-> Point(midwayX, badgeStart.y)],
       [cmd |-> "L", to |-> Point(midwayX, connectorEnd.y)] >>

\* `M`, `L` and `C` commands of the connector, each with the point it ends at
connectorPath(badgeStart, midwayX, connectorEnd) ==
    LET verticalDistance == Abs(badgeStart.y - connectorEnd.y)
        curveRadius == Min(px(maxCurveRadius), verticalDistance \div 2)
    IN IF verticalDistance < px(bendThreshold)
       THEN << [cmd |-> "M", to |-> badgeStart],
               [cmd |-> "L", to |-> Point(midwayX, badgeStart.y)],
               [cmd |-> "L", to |-> connectorEnd] >>
       ELSE << [cmd |-> "M", to |-> badgeStart],
               [cmd |-> "L", to |-> Point(midwayX, badgeStart.y)],
               [cmd |-> "C", c1 |-> Point(midwayX, badgeStart.y + curveRadius),
                c2 |-> Point(midwayX, connectorEnd.y - curveRadius),
                to |-> Point(midwayX, connectorEnd.y)],
               [cmd |-> "L", to |-> connectorEnd] >>

\* The box, the text and the two anchors of the label of one list entry.
labelBox(info, fr) ==
    LET isLeft == info.isLeft
        fontSize == fr.labelFontSize
        charWidth == (fontSize * 6) \div 10
        longest == SeqMax(info.lines, 0)
        minBoxWidth == IF isLeft THEN minLeftBoxWidth ELSE minRightBoxWidth
        labelBoxWidth == Max(px(minBoxWidth), longest * charWidth + px(labelBoxPadding))
        labelBoxX == IF isLeft THEN px(labelEdgeBuffer)
                     ELSE fr.svgWidth - labelBoxWidth - px(labelEdgeBuffer)
        safeGap == IF isLeft THEN px(leftBoxSafeGap) ELSE px(rightBoxSafeGap)
        labelTextWidth == Max(charWidth * longest, px(minLabelTextWidth))
        labelTextRenderX == IF isLeft THEN px(labelEdgeBuffer) + safeGap
                            ELSE labelBoxX + labelBoxWidth - safeGap
        connectorEndX == IF isLeft THEN labelTextRenderX + labelTextWidth
                         ELSE labelTextRenderX - labelTextWidth
        connectorEndY == info.y + (Len(info.lines) * ((fontSize * 12) \div 10)) \div 2
                         + px(labelBadgeGap)
        labelBadgeX == IF isLeft THEN fr.imageX - fr.badgeRadius
                       ELSE fr.imageWidth + fr.imageX + fr.badgeRadius
    IN [ann |-> info.ann, isLeft |-> isLeft, lines |-> info.lines,
        labelBoxX |-> labelBoxX, labelBoxY |-> info.y,
        labelBoxWidth |-> labelBoxWidth, labelBoxHeight |-> info.height,
        labelTextRenderX |-> labelTextRenderX,
        connectorEnd |-> Point(connectorEndX, connectorEndY),
        labelBadge |-> Point(labelBadgeX, connectorEndY)]

\* the elbows spread over connectorsOnThisSide steps instead of one fewer
labelConnectorMutant(box, badgeStart, connectorIndex, connectorsOnThisSide) ==
    LET elbowCenter == (badgeStart.x + box.labelBadge.x) \div 2
        elbowMin == elbowCenter - px(elbowSpread) \div 2
        midwayX == IF connectorsOnThisSide > 1
                   THEN elbowMin + connectorIndex * (px(elbowSpread) \div connectorsOnThisSide)
                   ELSE elbowCenter
    IN [ann |-> box.ann, isLeft |-> box.isLeft, lines |-> box.lines,
        labelBoxX |-> box.labelBoxX, labelBoxY |-> box.labelBoxY,
        labelBoxWidth |-> box.labelBoxWidth, labelBoxHeight |-> box.labelBoxHeight,
        labelTextRenderX |-> box.labelTextRenderX,
        connectorEnd |-> box.connectorEnd,
        labelBadge |-> box.labelBadge,
        badgeStart |-> badgeStart,
        connectorIndex |-> connectorIndex,
        connectorsOnThisSide |-> connectorsOnThisSide,
        midwayX |-> midwayX,
        path |-> connectorPath(badgeStart, midwayX, box.connectorEnd)]

\* The connector from badgeStart to the label of box, the connectorIndex-th
\* of connectorsOnThisSide on its side.
labelConnector(box, badgeStart, connectorIndex, connectorsOnThisSide) ==
    LET elbowCenter == (badgeStart.x + box.labelBadge.x) \div 2
        elbowMin == elbowCenter - px(elbowSpread) \div 2
        midwayX == IF connectorsOnThisSide > 1
                   THEN elbowMin + connectorIndex * (px(elbowSpread) \div (connectorsOnThisSide - 1))
                   ELSE elbowCenter
    IN [ann |-> box.ann, isLeft |-> box.isLeft, lines |-> box.lines,
        labelBoxX |-> box.labelBoxX, labelBoxY |-> box.labelBoxY,
        labelBoxWidth |-> box.labelBoxWidth, labelBoxHeight |-> box.labelBoxHeight,
        labelTextRenderX |-> box.labelTextRenderX,
        connectorEnd |-> box.connectorEnd,
        labelBadge |-> box.labelBadge,
        badgeStart |-> badgeStart,
        connectorIndex |-> connectorIndex,
        connectorsOnThisSide |-> connectorsOnThisSide,
        midwayX |-> midwayX,
        path |-> connectorPath(badgeStart, midwayX, box.connectorEnd)]

\* the group of box with its connector starting at getBadgeCenter
boxGroup(box, connectorIndex, connectorsOnThisSide, fr) ==
    labelConnector(box, getBadgeCenter(box.ann, box.labelBadge.x, box.labelBadge.y, fr),
                   connectorIndex, connectorsOnThisSide)

\* One label group of renderLabelsAndConnectors: the k-th entry of list
\* (leftConnectorIndex++ / rightConnectorIndex++ count the earlier entries
\* of the same side).
labelGroup(list, k, fr) ==
    boxGroup(labelBox(list[k], fr),
             Cardinality({j \in 1..(k - 1) : list[j].isLeft = list[k].isLeft}),
             Cardinality({j \in DOMAIN list : list[j].isLeft = list[k].isLeft}),
             fr)

\* the label groups of the entries of list
labelGroups(list, fr) == [k \in DOMAIN list |-> labelGroup(list, k, fr)]

renderLabelsAndConnectors(anns, fr) == labelGroups(labelRenderList(anns, fr), fr)

----------------------------------------------------------------------------
(* Observers.  They record what a claim speaks about and never feed back   *)
(* into the program's state.                                                *)
ProbeIdle == [phase |-> "idle", base |-> <<>>, post |-> <<>>, n |-> 0, u |-> 0, r |-> 0]

\* k mutating calls were made on the list `pre`; restart begins a new run here.
ProbeOps(p, pre, k, restart) ==
    IF restart \/ p.phase # "ops"
    THEN [phase |-> "ops", base |-> pre, post |-> <<>>, n |-> k, u |-> 0, r |-> 0]
    ELSE [p EXCEPT !.n = p.n + k]

ProbeUndo(p, pre) ==
    IF p.phase = "ops" THEN [p EXCEPT !.phase = "undo", !.post = pre, !.u = 1]
    ELSE IF p.phase = "undo" /\ p.u < p.n THEN [p EXCEPT !.u = p.u + 1]
    ELSE ProbeIdle

ProbeRedo(p) ==
    IF p.phase = "undo" /\ p.u = p.n THEN [p EXCEPT !.phase = "redo", !.r = 1]
    ELSE IF p.phase = "redo" /\ p.r < p.n THEN [p EXCEPT !.r = p.r + 1]
    ELSE ProbeIdle

NoAdd == [made |-> FALSE, number |-> 0, before |-> 0, max |-> 0]
AddObs(la, number) ==
    [made |-> TRUE, number |-> number, before |-> la.max, max |-> Max(la.max, number)]

NoMut == [made |-> FALSE, pre |-> <<>>, empty |-> "none"]
MutObs(pre) == [made |-> TRUE, pre |-> pre, empty |-> "none"]
\* the last call was undo (redo) and found the stack it pops empty
EmptyObs(call, stack) == IF stack = <<>> THEN [NoMut EXCEPT !.empty = call] ELSE NoMut

NoGesture ==
    [phase |-> "none", moves |-> 0, histLen |-> 0, pre |-> <<>>,
     kind |-> "none", id |-> 0, at |-> <<>>, fromIdle |-> FALSE]

----------------------------------------------------------------------------
(* components/AnnotationCanvas.tsx and App.tsx: the state of the canvas    *)
(* after mount.                                                             *)
null == <<>>

\* the button is up, no field has the focus, nothing is due; `at` is where
\* the last mouse event was and `last` the kind of the last event
PointerIdle == [pressed |-> FALSE, label |-> NoId, focus |-> "none",
                blurDue |-> FALSE, clickDue |-> NoId, at |-> null, last |-> "none"]

InitCanvas ==
    /\ tool = "rectangle"
    /\ selectedId = NoId
    /\ drawing = FALSE
    /\ start = null
    /\ end = null
    /\ pencilPath = <<>>
    /\ dragOffset = null
    /\ resizing = null
    /\ dragging = null
    /\ editingLabelId = NoId
    /\ editingText = <<>>
    /\ inputPos = "null"
    /\ timers = <<>>
    /\ pointer = PointerIdle
    /\ events = 0
    /\ gesture = NoGesture

----------------------------------------------------------------------------
(* The store's callers.  Every action below is one handler; all the store  *)
(* calls of one handler share the closure cl of the render it came from.   *)

\* The annotations handed to onAddAnnotation by handleMouseUp.
DrawnShapes ==
    { Annotation(NoId, t, 0, Point(px(10), px(10)), [width |-> px(20), height |-> px(20)], <<>>) :
        t \in {"rectangle", "circle"} }

\* A saved project's list: k annotations numbered 1..k as they were saved;
\* the project still has the title it was created with.
SavedAnnotation(i) ==
    Annotation(100 + i, "rectangle", i, Point(px(10 * i), px(10)),
               [width |-> px(20), height |-> px(20)], <<1>>)
SavedProject(k) ==
    [id |-> k + 1, width |-> px(200), height |-> px(120), title |-> UntitledTitle,
     annotations |-> [i \in 1..k |-> SavedAnnotation(i)]]

\* ids of projects: those of the saved projects and that of a project
\* created from an uploaded image (`project-${Date.now()}-${Math.random()}`)
NoProject == 0
SavedProjectIds == 1..(MaxLoad + 1)
NewProjectIds == {MaxLoad + 2}
ProjectIds == SavedProjectIds \cup NewProjectIds

\* nothing has been written by the auto-save
NothingSaved == [id \in ProjectIds |-> <<>>]

\* anns.forEach(ann => addAnnotation(ann)): acc carries the queued state
\* and the observers through the calls.
RECURSIVE AddEach(_, _, _, _)
AddEach(acc, cl, anns, id) ==
    IF anns = <<>> THEN acc
    ELSE LET st2 == addAnnotation(acc.st, cl, Head(anns), id)
         IN AddEach([st      |-> st2,
                     lastAdd |-> AddObs(acc.lastAdd, Last(st2.annotations).number),
                     lastMut |-> MutObs(acc.st.annotations)],
                    cl, Tail(anns), id + 1)

\* AnnotationCanvas.handleMouseUp -> onAddAnnotation
AddAnnotation ==
    /\ ~showGallery
    /\ Len(history) < MaxHist
    /\ nextId <= MaxIds
    /\ \E a \in DrawnShapes, restart \in BOOLEAN :
         LET acc == AddEach([st |-> StoreState, lastAdd |-> lastAdd, lastMut |-> lastMut],
                            Closure, <<a>>, nextId)
         IN /\ Commit(acc.st)
            /\ lastAdd' = acc.lastAdd
            /\ lastMut' = acc.lastMut
            /\ probe' = ProbeOps(probe, annotations, 1, restart)
    /\ nextId' = nextId + 1
    /\ UNCHANGED <<showGallery, imageVars, titleVars, canvasVars, gesture>>

\* AnnotationCanvas.commitLabelEdit -> onUpdateAnnotation(id, { text })
UpdateAnnotation ==
    /\ ~showGallery
    /\ Len(history) < MaxHist
    /\ \E id \in 1..(nextId - 1), t \in Texts, restart \in BOOLEAN :
         /\ Commit(updateAnnotation(StoreState, Closure, id, [text |-> t]))
         /\ probe' = ProbeOps(probe, annotations, 1, restart)
    /\ lastMut' = MutObs(annotations)
    /\ UNCHANGED <<nextId, showGallery, imageVars, titleVars, canvasVars, lastAdd, gesture>>

\* AnnotationCanvas.handleDeleteAnnotation -> onDeleteAnnotation(id)
DeleteAnnotation ==
    /\ ~showGallery
    /\ Len(history) < MaxHist
    /\ \E id \in 1..(nextId - 1), restart \in BOOLEAN :
         /\ Commit(deleteAnnotation(StoreState, Closure, id))
         /\ probe' = ProbeOps(probe, annotations, 1, restart)
    /\ lastMut' = MutObs(annotations)
    /\ UNCHANGED <<nextId, showGallery, imageVars, titleVars, canvasVars, lastAdd, gesture>>

\* Toolbar onClearAll
ClearAnnotations ==
    /\ ~showGallery
    /\ Len(history) < MaxHist
    /\ Commit(clearAnnotations(StoreState, Closure))
    /\ probe' = ProbeIdle
    /\ lastAdd' = NoAdd
    /\ lastMut' = NoMut
    /\ UNCHANGED <<nextId, showGallery, imageVars, titleVars, canvasVars, gesture>>

\* Toolbar onUndo
Undo ==
    /\ ~showGallery
    /\ Commit(undo(StoreState, Closure))
    /\ probe' = ProbeUndo(probe, annotations)
    /\ lastMut' = EmptyObs("undo", history)
    /\ UNCHANGED <<nextId, showGallery, imageVars, titleVars, canvasVars, lastAdd, gesture>>

\* Toolbar onRedo
Redo ==
    /\ ~showGallery
    /\ Commit(redo(StoreState, Closure))
    /\ probe' = ProbeRedo(probe)
    /\ lastMut' = EmptyObs("redo", redoStack)
    /\ UNCHANGED <<nextId, showGallery, imageVars, titleVars, canvasVars, lastAdd, gesture>>

\* App.handleSelectProject: setCurrentImage, clearAnnotations(), then one
\* addAnnotation per saved annotation, all from the closure of the render
\* that showed the gallery.
handleSelectProject(project) ==
    LET k == Len(project.annotations)
        cl == Closure
        cleared == clearAnnotations(StoreState, cl)
        acc == AddEach([st |-> cleared, lastAdd |-> NoAdd, lastMut |-> NoMut],
                       cl, project.annotations, nextId)
    IN /\ showGallery
       /\ imageWidth' = project.width
       /\ imageHeight' = project.height
       /\ currentProjectId' = project.id
       /\ autoSaved' = autoSaved
       /\ title' = project.title
       \* the canvas mounts; its autoFocusTitle effect runs
       /\ editingTitle' = autoFocusTitle(project.title)
       /\ editingHeaderTitle' = FALSE
       /\ Commit(acc.st)
       /\ lastAdd' = acc.lastAdd
       /\ lastMut' = acc.lastMut
       /\ probe' = IF k = 0 THEN ProbeIdle
                   ELSE ProbeOps(ProbeIdle, cl.annotations, k, TRUE)
       /\ nextId' = nextId + k
       /\ showGallery' = FALSE
       /\ UNCHANGED <<canvasVars, gesture>>

SelectProject ==
    \E k \in 0..MaxLoad :
        /\ Len(history) + k + 1 <= MaxHist
        /\ nextId + k - 1 <= MaxIds
        /\ handleSelectProject(SavedProject(k))

\* App.handleBackToGallery
BackToGallery ==
    /\ ~showGallery
    /\ Len(history) < MaxHist
    /\ Commit(clearAnnotations(StoreState, Closure))
    /\ showGallery' = TRUE
    /\ imageWidth' = 0
    /\ imageHeight' = 0
    /\ currentProjectId' = NoProject
    /\ autoSaved' = autoSaved
    /\ title' = NoTitle
    /\ editingTitle' = FALSE
    /\ editingHeaderTitle' = FALSE
    /\ probe' = ProbeIdle
    /\ lastAdd' = NoAdd
    /\ lastMut' = NoMut
    /\ UNCHANGED <<nextId, canvasVars, gesture>>

\* App.handleImageFile: a new project is created from an uploaded image
NewImage ==
    /\ showGallery
    /\ Len(history) < MaxHist
    /\ Commit(clearAnnotations(StoreState, Closure))
    /\ showGallery' = FALSE
    /\ imageWidth' = px(200)
    /\ imageHeight' = px(120)
    \* a fresh id: one that no record refers to
    /\ \E id \in NewProjectIds : autoSaved[id] = <<>> /\ currentProjectId' = id
    /\ autoSaved' = autoSaved
    /\ title' = UntitledTitle
    /\ editingTitle' = TRUE
    /\ editingHeaderTitle' = FALSE
    /\ probe' = ProbeIdle
    /\ lastAdd' = NoAdd
    /\ lastMut' = NoMut
    /\ UNCHANGED <<nextId, canvasVars, gesture>>

InitStore ==
    /\ annotations = <<>>
    /\ nextNumber = 1
    /\ history = <<>>
    /\ redoStack = <<>>
    /\ nextId = 1
    /\ showGallery = TRUE
    /\ imageWidth = 0
    /\ imageHeight = 0
    /\ currentProjectId = NoProject
    /\ autoSaved = NothingSaved
    /\ title = NoTitle
    /\ editingTitle = FALSE
    /\ editingHeaderTitle = FALSE
    /\ InitCanvas
    /\ probe = ProbeIdle
    /\ lastAdd = NoAdd
    /\ lastMut = NoMut

NextStore ==
    \/ AddAnnotation
    \/ UpdateAnnotation
    \/ DeleteAnnotation
    \/ ClearAnnotations
    \/ Undo
    \/ Redo
    \/ SelectProject
    \/ NewImage
    \/ BackToGallery

SpecStore == InitStore /\ [][NextStore]_vars

(* One editing session: the application right after handleImageFile has    *)
(* opened a new project, and the handlers that make one store call each.   *)
InitSession ==
    /\ annotations = <<>>
    /\ nextNumber = 1
    /\ history = << <<>> >>
    /\ redoStack = <<>>
    /\ nextId = 1
    /\ showGallery = FALSE
    /\ imageWidth = px(200)
    /\ imageHeight = px(120)
    /\ currentProjectId \in NewProjectIds
    /\ autoSaved = NothingSaved
    /\ title = UntitledTitle
    /\ editingTitle = TRUE
    /\ editingHeaderTitle = FALSE
    /\ InitCanvas
    /\ probe = ProbeIdle
    /\ lastAdd = NoAdd
    /\ lastMut = NoMut

NextSession ==
    \/ AddAnnotation
    \/ UpdateAnnotation
    \/ DeleteAnnotation
    \/ ClearAnnotations
    \/ Undo
    \/ Redo

SpecSession == InitSession /\ [][NextSession]_vars

----------------------------------------------------------------------------
(* The canvas of an open project: what AnnotationCanvas renders from the   *)
(* current annotations and image size.                                      *)
minImageSide == 2

frame == Frame(annotations, imageWidth, imageHeight)

\* if (!imageWidth || !imageHeight || imageWidth < 2 || imageHeight < 2)
rendered ==
    IF imageWidth < px(minImageSide) \/ imageHeight < px(minImageSide) THEN <<>>
    ELSE renderLabelsAndConnectors(annotations, frame)

LongText == <<3, 3, 3, 3, 3, 3, 3>>      \* seven words: two lines of 23 and 3 characters

Shape(type, x, y, w, h, text) ==
    Annotation(NoId, type, 0, Point(px(x), px(y)), [width |-> px(w), height |-> px(h)], text)

\* Annotations as saved in projects: rectangles and an ellipse, each with
\* and without text, a dot across the midline of a 200-wide image and a
\* freehand stroke (position and size 0, points in surface coordinates).
LayoutShapes ==
    { Shape("rectangle", 20, 4, 40, 20, <<>>),
      Shape("rectangle", 20, 4, 40, 20, LongText),
      Shape("rectangle", 23, 6, 20, 20, <<>>),
      Shape("rectangle", 23, 6, 20, 20, LongText),
      Shape("circle", 130, 0, 40, 30, <<>>),
      Shape("circle", 130, 0, 40, 30, LongText),
      Shape("solid-circle", 96, 8, 14, 14, <<>>),
      [Shape("pencil", 0, 0, 0, 0, <<>>) EXCEPT
          !.points = <<Point(px(330), px(390)), Point(px(340), px(400))>>] }

ImageHeights == {px(30), px(120)}

LayoutProjects ==
    UNION { { [id |-> 1, width |-> px(200), height |-> h, title |-> "Plan",
               annotations |-> [i \in 1..n |-> [f[i] EXCEPT !.id = 100 + i, !.number = i]]] :
                f \in [1..n -> LayoutShapes], h \in ImageHeights } :
            n \in 1..MaxLabels }

\* the first project opened after the application has started
OpenProject ==
    /\ history = <<>>
    /\ \E project \in LayoutProjects : handleSelectProject(project)

InitLayout == InitStore

NextLayout ==
    \/ OpenProject
    \/ UpdateAnnotation
    \/ DeleteAnnotation

SpecLayout == InitLayout /\ [][NextLayout]_vars

----------------------------------------------------------------------------
(* components/AnnotationCanvas.tsx: the pointer handlers.  A handler reads *)
(* the world w as its render saw it and returns the world it leaves.       *)
Canvas ==
    [tool |-> tool, selectedId |-> selectedId, drawing |-> drawing, start |-> start,
     end |-> end, pencilPath |-> pencilPath, dragOffset |-> dragOffset,
     resizing |-> resizing, dragging |-> dragging, editingLabelId |-> editingLabelId,
     editingText |-> editingText, inputPos |-> inputPos, timers |-> timers,
     title |-> title, editingTitle |-> editingTitle,
     editingHeaderTitle |-> editingHeaderTitle]

World == [st |-> StoreState, c |-> Canvas, nextId |-> nextId]

CommitWorld(w) ==
    /\ Commit(w.st)
    /\ nextId' = w.nextId
    /\ tool' = w.c.tool
    /\ selectedId' = w.c.selectedId
    /\ drawing' = w.c.drawing
    /\ start' = w.c.start
    /\ end' = w.c.end
    /\ pencilPath' = w.c.pencilPath
    /\ dragOffset' = w.c.dragOffset
    /\ resizing' = w.c.resizing
    /\ dragging' = w.c.dragging
    /\ editingLabelId' = w.c.editingLabelId
    /\ editingText' = w.c.editingText
    /\ inputPos' = w.c.inputPos
    /\ timers' = w.c.timers
    /\ title' = w.c.title
    \* the autoFocusTitle effect of the render that follows
    /\ editingTitle' = (w.c.editingTitle \/ autoFocusTitle(w.c.title))
    /\ editingHeaderTitle' = w.c.editingHeaderTitle

\* getSvgCoords of a pointer event over the image point p
svgCoords(fr, p) == Point(p.x + fr.imageX, p.y + fr.imageY)

dragThreshold == 5
fixedSize == 14
minResizeSide == 10
fifthOfPixel == 12

\* the annotation's position is taken as a point of the surface
isPointInAnnotationMutant(point, ann, fr) ==
    LET annX == ann.position.x
        annY == ann.position.y
    IN IF ann.type = "rectangle"
       THEN /\ point.x >= annX
            /\ point.x <= annX + ann.size.width
            /\ point.y >= annY
            /\ point.y <= annY + ann.size.height
       ELSE IF ann.type = "circle"
       THEN LET rx == (ann.size.width \div 2) \div fifthOfPixel
                ry == (ann.size.height \div 2) \div fifthOfPixel
                dx == Abs(point.x - (annX + ann.size.width \div 2)) \div fifthOfPixel
                dy == Abs(point.y - (annY + ann.size.height \div 2)) \div fifthOfPixel
            IN /\ rx > 0 /\ ry > 0
               /\ dx <= rx /\ dy <= ry
               /\ (dx * dx * 1000) \div (rx * rx) + (dy * dy * 1000) \div (ry * ry) <= 1000
       ELSE FALSE

\* The ellipse test is evaluated in fifths of a pixel and thousandths.
isPointInAnnotation(point, ann, fr) ==
    LET annX == ann.position.x + fr.imageX
        annY == ann.position.y + fr.imageY
    IN IF ann.type = "rectangle"
       THEN /\ point.x >= annX
            /\ point.x <= annX + ann.size.width
            /\ point.y >= annY
            /\ point.y <= annY + ann.size.height
       ELSE IF ann.type = "circle"
       THEN LET rx == (ann.size.width \div 2) \div fifthOfPixel
                ry == (ann.size.height \div 2) \div fifthOfPixel
                dx == Abs(point.x - (annX + ann.size.width \div 2)) \div fifthOfPixel
                dy == Abs(point.y - (annY + ann.size.height \div 2)) \div fifthOfPixel
            IN /\ rx > 0 /\ ry > 0
               /\ dx <= rx /\ dy <= ry
               /\ (dx * dx * 1000) \div (rx * rx) + (dy * dy * 1000) \div (ry * ry) <= 1000
       ELSE FALSE

SetMax(S) == CHOOSE m \in S : \A n \in S : n <= m

\* a miss keeps the selection
handleMouseDownKeepsSelection(w, fr, coords) ==
    IF w.c.tool = "pointer"
    THEN LET anns == w.st.annotations
             hits == {i \in DOMAIN anns : isPointInAnnotation(coords, anns[i], fr)}
         IN IF hits # {}
            THEN LET hit == anns[SetMax(hits)]
                 IN [w EXCEPT !.c.selectedId = hit.id,
                              !.c.dragOffset =
                                  Point(coords.x - (hit.position.x + fr.imageX),
                                        coords.y - (hit.position.y + fr.imageY))]
            ELSE w
    ELSE [w EXCEPT !.c.drawing = TRUE, !.c.start = coords, !.c.end = coords,
                   !.c.pencilPath = IF w.c.tool = "pencil" THEN <<coords>> ELSE @]

\* annotations.find(...) without the reverse(): the first hit of the list
handleMouseDownMutant(w, fr, coords) ==
    IF w.c.tool = "pointer"
    THEN LET anns == w.st.annotations
             hits == {i \in DOMAIN anns : isPointInAnnotation(coords, anns[i], fr)}
         IN IF hits # {}
            THEN LET hit == anns[CHOOSE m \in hits : \A n \in hits : m <= n]
                 IN [w EXCEPT !.c.selectedId = hit.id,
                              !.c.dragOffset =
                                  Point(coords.x - (hit.position.x + fr.imageX),
                                        coords.y - (hit.position.y + fr.imageY))]
            ELSE [w EXCEPT !.c.selectedId = NoId]
    ELSE [w EXCEPT !.c.drawing = TRUE, !.c.start = coords, !.c.end = coords,
                   !.c.pencilPath = IF w.c.tool = "pencil" THEN <<coords>> ELSE @]

handleMouseDown(w, fr, coords) ==
    IF w.c.tool = "pointer"
    THEN LET anns == w.st.annotations
             hits == {i \in DOMAIN anns : isPointInAnnotation(coords, anns[i], fr)}
         IN IF hits # {}
            THEN \* [...annotations].reverse().find(...)
                 LET hit == anns[SetMax(hits)]
                 IN [w EXCEPT !.c.selectedId = hit.id,
                              !.c.dragOffset =
                                  Point(coords.x - (hit.position.x + fr.imageX),
                                        coords.y - (hit.position.y + fr.imageY))]
            ELSE [w EXCEPT !.c.selectedId = NoId]
    ELSE [w EXCEPT !.c.drawing = TRUE, !.c.start = coords, !.c.end = coords,
                   !.c.pencilPath = IF w.c.tool = "pencil" THEN <<coords>> ELSE @]

\* the event reaches the surface's handleMouseDown unless the shape's
\* handler stops it
handleShapeMouseDown(w, fr, ann, coords) ==
    IF w.c.tool # "pointer" \/ w.c.resizing # null \/ w.c.editingLabelId # NoId
    THEN handleMouseDown(w, fr, coords)
    ELSE [w EXCEPT !.c.dragging =
                       [id |-> ann.id, type |-> "shape",
                        offset |-> Point(coords.x - ann.position.x,
                                         coords.y - ann.position.y)],
                   !.c.selectedId = ann.id]

handleLabelMouseDown(w, fr, ann, labelTextX, labelTextY, coords) ==
    IF w.c.tool # "pointer" \/ w.c.resizing # null \/ w.c.editingLabelId # NoId
    THEN handleMouseDown(w, fr, coords)
    ELSE [w EXCEPT !.c.dragging =
                       [id |-> ann.id, type |-> "label",
                        offset |-> Point(coords.x - labelTextX, coords.y - labelTextY)],
                   !.c.selectedId = ann.id]

\* onMouseDown of a resize handle of ann
handleResizeMouseDown(w, ann, corner) ==
    [w EXCEPT !.c.resizing = [id |-> ann.id, corner |-> corner]]

Update(w, id, updates) ==
    [w EXCEPT !.st = updateAnnotation(w.st, Closure, id, updates)]

Find(anns, id) == SelectSeq(anns, LAMBDA a : a.id = id)

\* the switch over resizing.corner
resized(annotation, corner, coords, fr) ==
    LET currentX == annotation.position.x + fr.imageX
        currentY == annotation.position.y + fr.imageY
        currentWidth == annotation.size.width
        currentHeight == annotation.size.height
        west == corner \in {"sw", "nw", "w"}
        east == corner \in {"se", "ne", "e"}
        north == corner \in {"ne", "nw", "n"}
        south == corner \in {"se", "sw", "s"}
    IN [position |->
            Point(IF west THEN coords.x - fr.imageX ELSE annotation.position.x,
                  IF north THEN coords.y - fr.imageY ELSE annotation.position.y),
        size |->
            [width |-> IF east THEN Max(px(minResizeSide), coords.x - currentX)
                       ELSE IF west
                       THEN Max(px(minResizeSide), currentX + currentWidth - coords.x)
                       ELSE currentWidth,
             height |-> IF south THEN Max(px(minResizeSide), coords.y - currentY)
                        ELSE IF north
                        THEN Max(px(minResizeSide), currentY + currentHeight - coords.y)
                        ELSE currentHeight]]

handleMouseMove(w, fr, coords, buttons) ==
    IF w.c.tool = "pointer" /\ w.c.selectedId # NoId /\ w.c.dragOffset # null
    THEN IF buttons = 1
         THEN Update(w, w.c.selectedId,
                     [position |-> Point(coords.x - w.c.dragOffset.x - fr.imageX,
                                         coords.y - w.c.dragOffset.y - fr.imageY)])
         ELSE w
    ELSE IF w.c.tool = "pointer" /\ w.c.resizing # null /\ w.c.selectedId # NoId
    THEN LET found == Find(w.st.annotations, w.c.selectedId)
         IN IF found = <<>> \/ buttons # 1 THEN w
            ELSE Update(w, w.c.selectedId, resized(found[1], w.c.resizing.corner, coords, fr))
    ELSE IF ~w.c.drawing \/ w.c.start = null THEN w
    ELSE [w EXCEPT !.c.end = coords,
                   !.c.pencilPath = IF w.c.tool = "pencil" THEN Append(@, coords) ELSE @]

handleSvgMouseMove(w, fr, coords, buttons) ==
    IF w.c.dragging = null THEN handleMouseMove(w, fr, coords, buttons)
    ELSE IF w.c.dragging.type = "shape"
    THEN Update(w, w.c.dragging.id,
                [position |-> Point(coords.x - w.c.dragging.offset.x,
                                    coords.y - w.c.dragging.offset.y)])
    ELSE IF Find(w.st.annotations, w.c.dragging.id) # <<>>
    THEN Update(w, w.c.dragging.id,
                [labelPosition |-> Point(coords.x - w.c.dragging.offset.x,
                                         coords.y - w.c.dragging.offset.y)])
    ELSE w

\* width > 5 && height > 5
clearsThresholdMutant(width, height) == TRUE

clearsThreshold(width, height) ==
    width > px(dragThreshold) /\ height > px(dragThreshold)

isShapePartiallyInImage(x, y, width, height, imgW, imgH) ==
    /\ x + width > 0
    /\ y + height > 0
    /\ x < imgW
    /\ y < imgH

\* onAddAnnotation(annotation); a created shape also arms the 100 ms timer
\* that starts the label editor
Add(w, annotation, armTimer) ==
    [w EXCEPT !.st = addAnnotation(w.st, Closure, annotation, w.nextId),
              !.nextId = @ + 1,
              !.c.timers = IF armTimer THEN Append(@, w.nextId) ELSE @]

\* the corner of the shape is where the gesture began
handleMouseUpMutant(w, fr) ==
    IF w.c.tool = "pointer" /\ w.c.selectedId # NoId /\ w.c.dragOffset # null
    THEN [w EXCEPT !.c.dragOffset = null]
    ELSE IF w.c.tool = "pointer" /\ w.c.resizing # null
    THEN [w EXCEPT !.c.resizing = null]
    ELSE IF ~w.c.drawing \/ w.c.start = null THEN w
    ELSE IF w.c.tool = "pencil" /\ Len(w.c.pencilPath) > 1
    THEN LET stroke == [Annotation(NoId, "pencil", 0, Point(0, 0),
                                   [width |-> 0, height |-> 0], <<>>)
                           EXCEPT !.points = w.c.pencilPath]
         IN [Add(w, stroke, FALSE) EXCEPT !.c.drawing = FALSE, !.c.pencilPath = <<>>,
                                          !.c.start = null, !.c.end = null]
    ELSE IF w.c.end = null THEN [w EXCEPT !.c.drawing = FALSE]
    ELSE LET x == w.c.start.x - fr.imageX
             y == w.c.start.y - fr.imageY
             width == Abs(w.c.end.x - w.c.start.x)
             height == Abs(w.c.end.y - w.c.start.y)
             idle == [w EXCEPT !.c.drawing = FALSE, !.c.start = null, !.c.end = null]
             drawn(shape) ==
                 [Add(w, shape, TRUE) EXCEPT !.c.drawing = FALSE,
                                             !.c.start = null, !.c.end = null]
         IN IF ~isShapePartiallyInImage(x, y, width, height,
                                        fr.imageWidth, fr.imageHeight)
            THEN idle
            ELSE IF w.c.tool \in {"rectangle", "circle"} /\ clearsThreshold(width, height)
            THEN drawn(Annotation(NoId, w.c.tool, 0, Point(x, y),
                                  [width |-> width, height |-> height], <<>>))
            ELSE IF w.c.tool = "solid-circle"
            THEN drawn(Annotation(NoId, "solid-circle", 0,
                                  Point(w.c.end.x - fr.imageX - px(fixedSize) \div 2,
                                        w.c.end.y - fr.imageY - px(fixedSize) \div 2),
                                  [width |-> px(fixedSize), height |-> px(fixedSize)], <<>>))
            ELSE idle

handleMouseUp(w, fr) ==
    IF w.c.tool = "pointer" /\ w.c.selectedId # NoId /\ w.c.dragOffset # null
    THEN [w EXCEPT !.c.dragOffset = null]
    ELSE IF w.c.tool = "pointer" /\ w.c.resizing # null
    THEN [w EXCEPT !.c.resizing = null]
    ELSE IF ~w.c.drawing \/ w.c.start = null THEN w
    ELSE IF w.c.tool = "pencil" /\ Len(w.c.pencilPath) > 1
    THEN LET stroke == [Annotation(NoId, "pencil", 0, Point(0, 0),
                                   [width |-> 0, height |-> 0], <<>>)
                           EXCEPT !.points = w.c.pencilPath]
         IN [Add(w, stroke, FALSE) EXCEPT !.c.drawing = FALSE, !.c.pencilPath = <<>>,
                                          !.c.start = null, !.c.end = null]
    ELSE IF w.c.end = null THEN [w EXCEPT !.c.drawing = FALSE]
    ELSE LET x == Min(w.c.start.x, w.c.end.x) - fr.imageX
             y == Min(w.c.start.y, w.c.end.y) - fr.imageY
             width == Abs(w.c.end.x - w.c.start.x)
             height == Abs(w.c.end.y - w.c.start.y)
             idle == [w EXCEPT !.c.drawing = FALSE, !.c.start = null, !.c.end = null]
             drawn(shape) ==
                 [Add(w, shape, TRUE) EXCEPT !.c.drawing = FALSE,
                                             !.c.start = null, !.c.end = null]
         IN IF ~isShapePartiallyInImage(x, y, width, height,
                                        fr.imageWidth, fr.imageHeight)
            THEN idle
            ELSE IF w.c.tool \in {"rectangle", "circle"} /\ clearsThreshold(width, height)
            THEN drawn(Annotation(NoId, w.c.tool, 0, Point(x, y),
                                  [width |-> width, height |-> height], <<>>))
            ELSE IF w.c.tool = "solid-circle"
            THEN drawn(Annotation(NoId, "solid-circle", 0,
                                  Point(w.c.end.x - fr.imageX - px(fixedSize) \div 2,
                                        w.c.end.y - fr.imageY - px(fixedSize) \div 2),
                                  [width |-> px(fixedSize), height |-> px(fixedSize)], <<>>))
            ELSE idle

handleSvgMouseUp(w, fr) == handleMouseUp([w EXCEPT !.c.dragging = null], fr)

\* the callback of setTimeout(..., 100) for the annotation id
autoStartEdit(w, id) ==
    [w EXCEPT !.c.editingLabelId = id, !.c.editingText = <<>>, !.c.inputPos = "set"]

\* onClick of a label: onSelectAnnotation(ann.id), handleLabelClick(ann, x, y)
handleLabelClick(w, ann) ==
    [w EXCEPT !.c.selectedId = ann.id, !.c.editingLabelId = ann.id,
              !.c.editingText = ann.text, !.c.inputPos = "set"]

commitLabelEdit(w) ==
    LET w1 == IF w.c.editingLabelId # NoId
              THEN Update(w, w.c.editingLabelId, [text |-> w.c.editingText])
              ELSE w
    IN [w1 EXCEPT !.c.editingLabelId = NoId, !.c.editingText = <<>>, !.c.inputPos = "null"]

cancelLabelEditMutant(w) == commitLabelEdit(w)

\* onKeyDown of the editor with Escape
cancelLabelEdit(w) == [w EXCEPT !.c.editingLabelId = NoId]

handleDeleteAnnotation(w, id) ==
    [w EXCEPT !.st = deleteAnnotation(w.st, Closure, id), !.c.selectedId = NoId]

\* App.handleUpdateTitle (a project is open: currentProjectId is set)
onUpdateTitle(w, newTitle) == [w EXCEPT !.c.title = newTitle]

handleTitleClick(w) == [w EXCEPT !.c.editingTitle = TRUE]

\* onBlur, and onKeyDown with Enter, of the title input holding text
commitTitleEdit(w, text) == [onUpdateTitle(w, text) EXCEPT !.c.editingTitle = FALSE]

\* onKeyDown of the title input with Escape
cancelTitleEdit(w) == [w EXCEPT !.c.editingTitle = FALSE]

\* onClick of the project name in the header
startHeaderTitleEdit(w) == [w EXCEPT !.c.editingHeaderTitle = TRUE]

\* headerTitleText.trim() && onUpdateTitle
commitHeaderTitleEdit(w, text) ==
    [(IF text # NoTitle THEN onUpdateTitle(w, text) ELSE w)
        EXCEPT !.c.editingHeaderTitle = FALSE]

cancelHeaderTitleEdit(w) == [w EXCEPT !.c.editingHeaderTitle = FALSE]

\* the document keydown listener with Delete or Backspace
handleKeyDown(w) ==
    IF w.c.editingLabelId # NoId \/ w.c.editingTitle THEN w
    ELSE IF w.c.selectedId # NoId THEN handleDeleteAnnotation(w, w.c.selectedId)
    ELSE w

----------------------------------------------------------------------------
(* The canvas of an open project under the user's mouse and keyboard.      *)
(* Pointer positions are given by the image point under the pointer.       *)
CtlTools == {"pointer", "rectangle", "circle", "solid-circle", "pencil"}
CtlCorners == {"nw", "se", "e"}
CtlPoints == {Point(px(12), px(12)), Point(px(150), px(90)), Point(px(8), px(4))}
CtlTitles == {UntitledTitle, "Plan"}
\* what the header's input holds when it is committed: nothing, or a name
CtlHeaderTexts == {NoTitle, "Plan"}
\* sides of the saved rectangle: as drawn large, and as drawn just over the
\* creation threshold
CtlSides == {px(20), px(8)}
\* a project whose image is one pixel wide: nothing can have been drawn on it
TinyProject == [SavedProject(0) EXCEPT !.width = px(1), !.title = "Plan"]

CtlProjects ==
    { [SavedProject(1) EXCEPT !.title = t,
                              !.annotations[1].size = [width |-> side, height |-> side]] :
        t \in CtlTitles, side \in CtlSides }
    \cup {TinyProject}

\* if (!imageWidth || !imageHeight || imageWidth < 2 || imageHeight < 2)
\* return "No image loaded": the surface is presented otherwise
presented == imageWidth >= px(minImageSide) /\ imageHeight >= px(minImageSide)

\* the surface is presented whatever the size of the image
ReadyMutant == ~showGallery /\ ~pointer.blurDue /\ pointer.clickDue = NoId

\* the surface is presented and no blur and no click is still due from the
\* last mouse event
Ready == ~showGallery /\ presented /\ ~pointer.blurDue /\ pointer.clickDue = NoId

\* one more event of the user, within the bound of the model
Event == events < MaxEvents /\ events' = events + 1

\* no gesture is under way in the canvas state c
Idle(c) == c.dragging = null /\ c.dragOffset = null /\ c.resizing = null /\ ~c.drawing

\* a drag of a shape or label is set up in the canvas state c
DragActive(c) ==
    \/ c.dragging # null
    \/ c.tool = "pointer" /\ c.selectedId # NoId /\ c.dragOffset # null

\* the gesture begun by a pointer-down at coords that left the world w2
GestureAfterDown(w2, coords) ==
    IF DragActive(w2.c)
    THEN [phase |-> "drag", moves |-> 0, histLen |-> Len(history), pre |-> annotations,
          kind |-> IF w2.c.dragging # null THEN w2.c.dragging.type ELSE "shape",
          id |-> IF w2.c.dragging # null THEN w2.c.dragging.id ELSE w2.c.selectedId,
          at |-> coords, fromIdle |-> Idle(Canvas)]
    ELSE IF w2.c.drawing
    THEN [NoGesture EXCEPT !.phase = "draw", !.at = coords, !.fromIdle = Idle(Canvas)]
    ELSE NoGesture

\* a press on the surface at coords: the field that has the focus, if any,
\* is due to lose it (label is the id of the label pressed on, if any)
Pressed(label, coords) ==
    [pressed |-> TRUE, label |-> label, focus |-> pointer.focus,
     blurDue |-> pointer.focus # "none", clickDue |-> NoId, at |-> coords, last |-> "down"]

\* an event that is not of the mouse
After(kind) == [pointer EXCEPT !.last = kind]

StoreObsUnchanged == Event /\ UNCHANGED <<showGallery, imageVars, probe, lastAdd, lastMut>>

\* Toolbar onSelectTool
SelectTool ==
    /\ Ready /\ ~pointer.pressed /\ pointer.focus = "none"
    /\ \E t \in CtlTools \ {tool} : CommitWorld([World EXCEPT !.c.tool = t])
    /\ pointer' = After("tool")
    /\ gesture' = NoGesture
    /\ StoreObsUnchanged

MouseDownCanvasAt(coords) ==
    /\ CommitWorld(handleMouseDown(World, frame, coords))
    /\ gesture' = GestureAfterDown(handleMouseDown(World, frame, coords), coords)
    /\ pointer' = Pressed(NoId, coords)

\* mousedown on the image or inside an unfilled shape
MouseDownCanvas ==
    /\ Ready /\ ~pointer.pressed
    /\ \E p \in CtlPoints : MouseDownCanvasAt(svgCoords(frame, p))
    /\ StoreObsUnchanged

\* a point of the outline of ann: on the top edge of a rectangle, the top
\* of an ellipse, the centre of a dot
outlinePoint(ann, fr) ==
    LET annX == ann.position.x + fr.imageX
        annY == ann.position.y + fr.imageY
    IN IF ann.type = "rectangle" THEN Point(annX + ann.size.width \div 4, annY)
       ELSE IF ann.type = "circle" THEN Point(annX + ann.size.width \div 2, annY)
       ELSE Point(annX + ann.size.width \div 2, annY + ann.size.height \div 2)

MouseDownShapeAt(ann, coords) ==
    /\ CommitWorld(handleShapeMouseDown(World, frame, ann, coords))
    /\ gesture' = GestureAfterDown(handleShapeMouseDown(World, frame, ann, coords), coords)
    /\ pointer' = Pressed(NoId, coords)

\* mousedown on the outline of a shape (under a resize handle of a selected
\* ellipse the handle takes the event)
MouseDownShape ==
    /\ Ready /\ ~pointer.pressed
    /\ \E i \in DOMAIN annotations :
         /\ annotations[i].type \in {"rectangle", "circle", "solid-circle"}
         /\ annotations[i].type = "circle" => selectedId # annotations[i].id
         /\ MouseDownShapeAt(annotations[i], outlinePoint(annotations[i], frame))
    /\ StoreObsUnchanged

\* the point of the label text of group g that the pointer is pressed on
labelTextPoint(g, fr) ==
    Point(IF g.isLeft THEN g.labelTextRenderX + px(4) ELSE g.labelTextRenderX - px(4),
          g.labelBoxY + fr.labelFontSize + px(8))

\* onMouseDown of the label text of group g
pressLabel(w, fr, g) ==
    handleLabelMouseDown(w, fr, g.ann, g.labelBadge.x, g.labelBadge.y, labelTextPoint(g, fr))

MouseDownLabelOf(groups) ==
    \E k \in DOMAIN groups :
        /\ groups[k].ann.id # editingLabelId
        /\ CommitWorld(pressLabel(World, frame, groups[k]))
        /\ gesture' = GestureAfterDown(pressLabel(World, frame, groups[k]),
                                       labelTextPoint(groups[k], frame))
        /\ pointer' = Pressed(groups[k].ann.id, labelTextPoint(groups[k], frame))

\* mousedown on the text of a label that is not being edited
MouseDownLabel ==
    /\ Ready /\ ~pointer.pressed
    /\ MouseDownLabelOf(rendered)
    /\ StoreObsUnchanged

\* where the handle `corner` of ann is drawn
handlePoint(ann, corner, fr) ==
    Point(ann.position.x + fr.imageX
            + (IF corner \in {"se", "ne", "e"} THEN ann.size.width
               ELSE IF corner \in {"n", "s"} THEN ann.size.width \div 2 ELSE 0),
          ann.position.y + fr.imageY
            + (IF corner \in {"se", "sw", "s"} THEN ann.size.height
               ELSE IF corner \in {"e", "w"} THEN ann.size.height \div 2 ELSE 0))

\* mousedown on one of the eight handles of the selected rectangle or circle
MouseDownHandle ==
    /\ Ready /\ ~pointer.pressed
    /\ \E i \in DOMAIN annotations, corner \in CtlCorners :
         /\ annotations[i].id = selectedId
         /\ annotations[i].type \in {"rectangle", "circle"}
         /\ CommitWorld(handleResizeMouseDown(World, annotations[i], corner))
         /\ pointer' = Pressed(NoId, handlePoint(annotations[i], corner, frame))
    /\ gesture' = NoGesture
    /\ StoreObsUnchanged

MouseMoveTo(coords) ==
    /\ CommitWorld(handleSvgMouseMove(World, frame, coords, IF pointer.pressed THEN 1 ELSE 0))
    /\ pointer' = [pointer EXCEPT !.label = NoId, !.at = coords, !.last = "move"]

\* mousemove over the surface, e.buttons = 1 while the button is held
MouseMove ==
    /\ Ready
    /\ \E p \in CtlPoints : MouseMoveTo(svgCoords(frame, p))
    /\ gesture' = IF gesture.phase \in {"drag", "draw"} /\ pointer.pressed
                  THEN [gesture EXCEPT !.moves = @ + 1]
                  ELSE NoGesture
    /\ StoreObsUnchanged

\* mouseup over the surface; released on the label it was pressed on
\* without a move in between, the label's click follows
MouseUp ==
    /\ Ready /\ pointer.pressed
    /\ CommitWorld(handleSvgMouseUp(World, frame))
    /\ pointer' = [pointer EXCEPT !.pressed = FALSE, !.label = NoId,
                                  !.clickDue = pointer.label, !.last = "up"]
    /\ gesture' = IF gesture.phase = "drag" THEN [gesture EXCEPT !.phase = "done"]
                  ELSE IF gesture.phase = "draw" THEN [gesture EXCEPT !.phase = "drawn"]
                  ELSE NoGesture
    /\ StoreObsUnchanged

\* the button is released outside the surface: no handler of the canvas runs
MouseUpOutside ==
    /\ Ready /\ pointer.pressed
    /\ pointer' = [pointer EXCEPT !.pressed = FALSE, !.label = NoId, !.last = "upOutside"]
    /\ gesture' = NoGesture
    /\ UNCHANGED <<storeVars, titleVars, tool, selectedId, drawing, start, end, pencilPath,
                   dragOffset, resizing, dragging, editingLabelId, editingText, inputPos,
                   timers>>
    /\ UNCHANGED <<imageVars, probe, lastAdd, lastMut>>
    /\ Event

LabelClick ==
    /\ ~showGallery /\ pointer.clickDue # NoId
    /\ \E i \in DOMAIN annotations :
         /\ annotations[i].id = pointer.clickDue
         /\ CommitWorld(handleLabelClick(World, annotations[i]))
    /\ pointer' = [pointer EXCEPT !.clickDue = NoId, !.focus = "label", !.last = "click"]
    /\ gesture' = NoGesture
    /\ StoreObsUnchanged

\* the 100 ms timer armed by handleMouseUp fires; the editor takes focus
AutoEditTimer ==
    /\ Ready /\ timers # <<>> /\ pointer.focus = "none"
    /\ CommitWorld(autoStartEdit([World EXCEPT !.c.timers = Tail(@)], Head(timers)))
    /\ pointer' = [pointer EXCEPT !.focus = "label", !.last = "timer"]
    /\ gesture' = IF gesture.phase = "drag" THEN gesture ELSE NoGesture
    /\ StoreObsUnchanged

\* onChange of the editor
TypeText ==
    /\ Ready /\ pointer.focus = "label"
    /\ \E t \in Texts \ {editingText} : CommitWorld([World EXCEPT !.c.editingText = t])
    /\ gesture' = NoGesture
    /\ pointer' = After("type")
    /\ StoreObsUnchanged

\* Enter in the editor
KeyEnter ==
    /\ Ready /\ pointer.focus = "label"
    /\ CommitWorld(commitLabelEdit(World))
    /\ pointer' = [pointer EXCEPT !.focus = "none", !.last = "enter"]
    /\ gesture' = NoGesture
    /\ StoreObsUnchanged

\* Escape in the editor
KeyEscape ==
    /\ Ready /\ pointer.focus = "label"
    /\ CommitWorld(cancelLabelEdit(World))
    /\ pointer' = [pointer EXCEPT !.focus = "none", !.last = "escape"]
    /\ gesture' = NoGesture
    /\ StoreObsUnchanged

\* onBlur of the editor, after a press outside it
TextareaBlur ==
    /\ ~showGallery /\ pointer.focus = "label"
    /\ CommitWorld(commitLabelEdit(World))
    /\ pointer' = [pointer EXCEPT !.focus = "none", !.blurDue = FALSE, !.last = "blur"]
    /\ gesture' = NoGesture
    /\ StoreObsUnchanged

\* where the title is drawn above the image
titlePoint(fr) == Point(fr.imageX + fr.imageWidth \div 2, fr.imageY - px(40))

\* a click on the title above the image: the surface's mousedown and
\* mouseup, then the title's onClick; the title input takes the focus
TitleClick ==
    /\ Ready /\ ~pointer.pressed /\ pointer.focus = "none" /\ ~editingTitle
    /\ CommitWorld(handleTitleClick(
           handleSvgMouseUp(handleMouseDown(World, frame, titlePoint(frame)), frame)))
    /\ pointer' = [pointer EXCEPT !.focus = "title", !.at = titlePoint(frame),
                                  !.last = "titleClick"]
    /\ gesture' = NoGesture
    /\ StoreObsUnchanged

\* Enter or Escape in the title input
TitleKey ==
    /\ Ready /\ pointer.focus = "title"
    /\ \/ \E t \in CtlTitles : CommitWorld(commitTitleEdit(World, t))
       \/ CommitWorld(cancelTitleEdit(World))
    /\ pointer' = [pointer EXCEPT !.focus = "none", !.last = "titleKey"]
    /\ gesture' = NoGesture
    /\ StoreObsUnchanged

\* onBlur of the title input
TitleBlur ==
    /\ ~showGallery /\ pointer.focus = "title"
    /\ \E t \in CtlTitles : CommitWorld(commitTitleEdit(World, t))
    /\ pointer' = [pointer EXCEPT !.focus = "none", !.blurDue = FALSE, !.last = "blur"]
    /\ gesture' = NoGesture
    /\ StoreObsUnchanged

\* a click on the project name in the header: its input mounts with autoFocus
HeaderClick ==
    /\ Ready /\ ~pointer.pressed /\ pointer.focus = "none" /\ ~editingHeaderTitle
    /\ CommitWorld(startHeaderTitleEdit(World))
    /\ pointer' = [pointer EXCEPT !.focus = "header", !.last = "headerClick"]
    /\ gesture' = NoGesture
    /\ StoreObsUnchanged

\* Enter or Escape in the header's input
HeaderKey ==
    /\ Ready /\ pointer.focus = "header"
    /\ \/ \E t \in CtlHeaderTexts : CommitWorld(commitHeaderTitleEdit(World, t))
       \/ CommitWorld(cancelHeaderTitleEdit(World))
    /\ pointer' = [pointer EXCEPT !.focus = "none", !.last = "headerKey"]
    /\ gesture' = NoGesture
    /\ StoreObsUnchanged

\* onBlur of the header's input
HeaderBlur ==
    /\ ~showGallery /\ pointer.focus = "header"
    /\ \E t \in CtlHeaderTexts : CommitWorld(commitHeaderTitleEdit(World, t))
    /\ pointer' = [pointer EXCEPT !.focus = "none", !.blurDue = FALSE, !.last = "blur"]
    /\ gesture' = NoGesture
    /\ StoreObsUnchanged

\* Delete or Backspace: the document's listener hears it whatever has the focus
KeyDelete ==
    /\ Ready
    /\ CommitWorld(handleKeyDown(World))
    /\ gesture' = NoGesture
    /\ pointer' = After("delete")
    /\ StoreObsUnchanged

\* a saved project with one annotation is opened after the application
\* has started
OpenSavedProject ==
    /\ history = <<>>
    /\ \E project \in CtlProjects : handleSelectProject(project)

InitCtl == InitStore

NextCtl ==
    \/ OpenSavedProject
    \/ SelectTool
    \/ MouseDownCanvas
    \/ MouseDownShape
    \/ MouseDownLabel
    \/ MouseDownHandle
    \/ MouseMove
    \/ MouseUp
    \/ MouseUpOutside
    \/ LabelClick
    \/ AutoEditTimer
    \/ TypeText
    \/ KeyEnter
    \/ KeyEscape
    \/ TextareaBlur
    \/ TitleClick
    \/ TitleKey
    \/ TitleBlur
    \/ HeaderClick
    \/ HeaderKey
    \/ HeaderBlur
    \/ KeyDelete

SpecCtl == InitCtl /\ [][NextCtl]_vars

----------------------------------------------------------------------------
(* The drawing surface under presses, moves and releases anywhere on it:   *)
(* inside the image and in the left margin, in every direction.            *)
DrawPoints ==
    { Point(px(12), px(90)), Point(px(150), px(12)),
      Point(-px(30), px(12)), Point(-px(10), px(90)) }

\* mousedown on the surface, on the image or in the margin
DrawDown ==
    /\ Ready /\ ~pointer.pressed
    /\ \E p \in DrawPoints : MouseDownCanvasAt(svgCoords(frame, p))
    /\ StoreObsUnchanged

\* mousemove over the surface with the button held
DrawMove ==
    /\ Ready /\ pointer.pressed
    /\ \E p \in DrawPoints : MouseMoveTo(svgCoords(frame, p))
    /\ gesture' = IF gesture.phase \in {"drag", "draw"}
                  THEN [gesture EXCEPT !.moves = @ + 1]
                  ELSE NoGesture
    /\ StoreObsUnchanged

NextDraw ==
    \/ OpenSavedProject
    \/ SelectTool
    \/ DrawDown
    \/ DrawMove
    \/ MouseUp

SpecDraw == InitCtl /\ [][NextDraw]_vars

-----------------------------------------------------------------------------
(* The canvas together with the keyboard shortcuts of the toolbar.  The    *)
(* window's keydown listener of Toolbar runs unless the event comes from   *)
(* the label editor's textarea.                                            *)
shortcutHeard == Ready /\ pointer.focus # "label"

\* a shortcut that makes one call of the store
Shortcut(st, kind) ==
    /\ CommitWorld([World EXCEPT !.st = st])
    /\ pointer' = After(kind)
    /\ gesture' = NoGesture
    /\ StoreObsUnchanged

\* Ctrl+Z: onUndo()
KeyUndo == shortcutHeard /\ Shortcut(undo(StoreState, Closure), "undo")

\* Ctrl+Y: onRedo()
KeyRedo == shortcutHeard /\ Shortcut(redo(StoreState, Closure), "redo")

\* Ctrl+Shift+X: onClearAll()
KeyClearAll == shortcutHeard /\ Shortcut(clearAnnotations(StoreState, Closure), "clearAll")

NextEdit ==
    \/ OpenSavedProject
    \/ SelectTool
    \/ MouseDownCanvas
    \/ MouseDownShape
    \/ MouseMove
    \/ MouseUp
    \/ AutoEditTimer
    \/ KeyEnter
    \/ KeyDelete
    \/ KeyUndo
    \/ KeyRedo
    \/ KeyClearAll

SpecEdit == InitCtl /\ [][NextEdit]_vars

-----------------------------------------------------------------------------
(* App's auto-save effect.  Each render of an open project clears the      *)
(* pending setTimeout(autoSave, 1000) and arms a new one that holds the    *)
(* render's project id and annotations; the timer that fires is the one    *)
(* of the latest render.  saveProject puts the record and replaces the     *)
(* project in the gallery's list.                                          *)
AutoSave ==
    \* if (currentProjectId && currentImage && !imageLoading)
    /\ currentProjectId # NoProject
    /\ imageWidth # 0
    /\ autoSaved' = [autoSaved EXCEPT ![currentProjectId] = <<annotations>>]
    /\ UNCHANGED <<storeVars, imageWidth, imageHeight, currentProjectId, titleVars,
                   canvasVars, obsVars>>

\* the project of the gallery's list with the given id: as it was saved,
\* or as the auto-save has replaced it
galleryProject(id) ==
    IF autoSaved[id] = <<>> THEN SavedProject(id - 1)
    ELSE [SavedProject(id - 1) EXCEPT !.annotations = autoSaved[id][1]]

\* Gallery onSelectProject(project)
OpenFromGallery ==
    \E id \in SavedProjectIds :
        /\ Len(history) + Len(galleryProject(id).annotations) + 1 <= MaxHist
        /\ nextId + Len(galleryProject(id).annotations) - 1 <= MaxIds
        /\ handleSelectProject(galleryProject(id))

NextSave ==
    \/ OpenFromGallery
    \/ AddAnnotation
    \/ DeleteAnnotation
    \/ Undo
    \/ BackToGallery
    \/ AutoSave

SpecSave == InitStore /\ [][NextSave]_vars

\* the timer fires once a second has passed without a render
SpecSaveFair == SpecSave /\ WF_vars(AutoSave)

----------------------------------------------------------------------------
(* C1: n mutating store calls (add, update, delete) followed by n undo()   *)
(* calls leave the annotation list as it was before the calls; n redo()    *)
(* calls after that leave it as it was after them.                         *)
UndoRedoRoundTrip ==
    /\ (probe.phase = "undo" /\ probe.u = probe.n) => annotations = probe.base
    /\ (probe.phase = "redo" /\ probe.r = probe.n) => annotations = probe.post

UndoRedoRoundTripWitness ==
    /\ probe.phase = "redo"
    /\ probe.r = probe.n
    /\ probe.n >= 2
    /\ probe.base # probe.post
    /\ annotations = probe.post

(* C2: no two annotations of the current list have the same number.        *)
NumbersUnique ==
    \A i, j \in DOMAIN annotations :
        i # j => annotations[i].number # annotations[j].number

(* C3: without a clear in between, every add gives a number strictly       *)
(* greater than every number given by an earlier add.                      *)
NumbersStrictlyIncrease ==
    lastAdd.made => lastAdd.number > lastAdd.before

(* C4: after a mutating store call the top of the undo stack is the list   *)
(* as it was right before that call, and the redo stack is empty.          *)
UndoTopIsPreMutation ==
    lastMut.made =>
        /\ history # <<>>
        /\ Last(history) = lastMut.pre
        /\ redoStack = <<>>

\* the labels of one side in the order placeLabels receives them, and the
\* positions it returns
sideInfos(isLeft) ==
    IF isLeft THEN leftInfos(annotations, frame) ELSE rightInfos(annotations, frame)
sidePositions(isLeft) == placeLabels(sideInfos(isLeft), frame)

(* C5: after a complete drag gesture (pointer-down on a shape or label,     *)
(* k >= 1 pointer-moves with the button held, pointer-up) the undo stack   *)
(* has exactly one snapshot more than before the gesture, and that         *)
(* snapshot is the list as it was before the gesture.                      *)
DragAddsOneSnapshot ==
    (gesture.phase = "done" /\ gesture.moves >= 1) =>
        /\ Len(history) = gesture.histLen + 1
        /\ Last(history) = gesture.pre

(* C6: on each side, in ascending anchor-y order, every label's final y is  *)
(* at least the previous label's y plus its height plus minGap.            *)
LabelsKeepMinGap ==
    rendered # <<>> =>
        \A isLeft \in BOOLEAN :
            LET arr == sideInfos(isLeft)
                y == sidePositions(isLeft)
            IN \A i \in 2..Len(arr) :
                   y[i] >= y[i - 1] + arr[i - 1].height + px(minGap)

(* C7 as stated: every label box lies inside the image's vertical extent,  *)
(* top and bottom.                                                          *)
LabelsInsideImage ==
    \A k \in DOMAIN rendered :
        /\ rendered[k].labelBoxY >= frame.imageY
        /\ rendered[k].labelBoxY + rendered[k].labelBoxHeight
             <= frame.imageY + frame.imageHeight

(* C7, amended: no label box starts above the image top, and a label box   *)
(* that is not taller than the image ends at or above the image bottom,    *)
(* however many labels share its side.                                      *)
LabelsInsideImageIfTheyFit ==
    \A k \in DOMAIN rendered :
        /\ rendered[k].labelBoxY >= frame.imageY
        /\ rendered[k].labelBoxHeight <= frame.imageHeight
             => rendered[k].labelBoxY + rendered[k].labelBoxHeight
                  <= frame.imageY + frame.imageHeight

\* a side whose stack is taller than the image, made of labels that each fit
LabelsInsideImageWitness ==
    /\ rendered # <<>>
    /\ \E isLeft \in BOOLEAN :
         LET arr == sideInfos(isLeft)
             natural == naturalPositions(arr, frame)
         IN /\ Len(arr) >= 3
            /\ Last(natural) + Last(arr).height > frame.imageY + frame.imageHeight
            /\ \A i \in DOMAIN arr : arr[i].height <= frame.imageHeight
            /\ sidePositions(isLeft) # natural
    /\ LabelsInsideImageIfTheyFit

(* C8: the margin of a label's side is at least its longest line times the *)
(* character width plus 24, and the label box lies inside that margin      *)
(* strip: x >= 0, within the surface width, not over the image's columns.  *)
LabelBoxInsideMargin ==
    \A k \in DOMAIN rendered :
        LET g == rendered[k]
            needed == SeqMax(g.lines, 0) * ((frame.labelFontSize * 6) \div 10)
                        + px(labelBoxPadding)
        IN /\ (IF g.isLeft THEN frame.leftMargin ELSE frame.rightMargin) >= needed
           /\ g.labelBoxX >= 0
           /\ g.labelBoxX + g.labelBoxWidth <= frame.svgWidth
           /\ g.isLeft => g.labelBoxX + g.labelBoxWidth <= frame.imageX
           /\ ~g.isLeft => g.labelBoxX >= frame.imageX + frame.imageWidth

\* the point lies on the outline of the rectangle ann
OnRectangleEdge(pt, ann) ==
    LET x0 == ann.position.x + frame.imageX
        y0 == ann.position.y + frame.imageY
        x1 == x0 + ann.size.width
        y1 == y0 + ann.size.height
    IN \/ pt.x \in {x0, x1} /\ y0 <= pt.y /\ pt.y <= y1
       \/ pt.y \in {y0, y1} /\ x0 <= pt.x /\ pt.x <= x1

\* the point lies on the ellipse ann, to within one per cent of its radii
OnEllipse(pt, ann) ==
    LET rx == ann.size.width \div 2
        ry == ann.size.height \div 2
        ex == pt.x - (ann.position.x + rx + frame.imageX)
        ey == pt.y - (ann.position.y + ry + frame.imageY)
        thousandths == (ex * ex * 1000) \div (rx * rx) + (ey * ey * 1000) \div (ry * ry)
    IN 990 <= thousandths /\ thousandths <= 1010

SameGeometry(before, after) ==
    \A i \in DOMAIN before, j \in DOMAIN after :
        before[i].id = after[j].id =>
            /\ before[i].position = after[j].position
            /\ before[i].size = after[j].size

(* C10: a step taken while a label is being edited (editingLabelId is not  *)
(* null) starts no draw, no drag of a shape or label and no resize, and    *)
(* changes no annotation's position or size.                               *)
EditingSuspendsInteraction ==
    [][editingLabelId # NoId =>
         /\ drawing' => drawing
         /\ dragging' # null => dragging' = dragging
         /\ dragOffset' # null => dragOffset' = dragOffset
         /\ resizing' # null => resizing' = resizing
         /\ SameGeometry(annotations, annotations')]_vars

\* the step is a release on the surface that commits a draw gesture
CommittedDraw ==
    /\ ~showGallery
    /\ pointer'.last = "up"
    /\ Len(annotations') = Len(annotations) + 1

(* C11: every committed draw gesture (rectangle, circle, dot, freehand) is  *)
(* followed by label-edit mode for the new annotation with an empty editing *)
(* text before any other user action is handled: the release arms the edit *)
(* for the new annotation, and the step after an armed edit is the one      *)
(* that opens it.                                                           *)
DrawEntersLabelEdit ==
    [][/\ CommittedDraw =>
            /\ timers' # <<>>
            /\ timers'[Len(timers')] = annotations'[Len(annotations')].id
       /\ ~showGallery /\ timers # <<>> =>
            /\ editingLabelId' = Head(timers)
            /\ editingText' = <<>>]_vars

\* the step is the release of a draw gesture begun at idle whose shape does
\* not clear the threshold
DegenerateRelease ==
    /\ ~showGallery
    /\ pointer'.last = "up"
    /\ gesture.phase = "draw" /\ gesture.fromIdle
    /\ \/ /\ tool \in {"rectangle", "circle"}
          /\ end # null
          /\ \/ Abs(end.x - start.x) <= px(dragThreshold)
             \/ Abs(end.y - start.y) <= px(dragThreshold)
       \/ tool = "pencil" /\ Len(pencilPath) <= 1

positionOf(anns, id) == Find(anns, id)[1].position

\* the image has the place in the surface that it had at pointer-down
ImageWhereItWas ==
    /\ frame.imageX = Frame(gesture.pre, imageWidth, imageHeight).imageX
    /\ frame.imageY = Frame(gesture.pre, imageWidth, imageHeight).imageY

\* a pointer-move with the button held during the drag of a shape, begun
\* at idle, puts the shape where it was at pointer-down plus the pointer's
\* displacement since then (pointer positions are surface coordinates)
DragFollowsPointer ==
    /\ pointer.pressed
    /\ gesture.phase = "drag" /\ gesture.kind = "shape" /\ gesture.fromIdle
    /\ Find(annotations, gesture.id) # <<>>
    /\ ImageWhereItWas
    => /\ Find(annotations', gesture.id) # <<>>
       /\ positionOf(annotations', gesture.id) =
              Point(positionOf(gesture.pre, gesture.id).x + pointer'.at.x - gesture.at.x,
                    positionOf(gesture.pre, gesture.id).y + pointer'.at.y - gesture.at.y)

(* C13: while a shape drag is active every pointer-move with the primary    *)
(* button held sets the position to (pointer - grabOffset), so the shape   *)
(* has moved by exactly the pointer's displacement since pointer-down; a   *)
(* pointer-move without the button held changes no annotation, also after  *)
(* the button was released outside the drawing surface.                    *)
ShapeDragTracksPointer ==
    [][~showGallery /\ pointer'.last = "move" =>
          /\ DragFollowsPointer
          /\ ~pointer.pressed => annotations' = annotations]_vars

(* C14: from every reachable controller state a pointer-up on the drawing   *)
(* surface leaves the controller idle: dragging = null, dragOffset = null, *)
(* resizing = null and drawing = false.                                    *)
PointerUpLeavesIdle ==
    ~showGallery /\ pointer.last = "up" => Idle(Canvas)

\* the step is a pointer-move that updates the selected annotation through
\* the handle held
ResizeUpdate ==
    /\ ~showGallery
    /\ pointer'.last = "move"
    /\ resizing # null /\ dragging = null /\ dragOffset = null
    /\ annotations' # annotations

\* the size of the annotation id in anns
sizeOf(anns, id) == Find(anns, id)[1].size

\* the `se` handle dragged to a point above and left of the origin leaves
\* the minimum size
SeHandleClampsBoth ==
    /\ resizing.corner = "se"
    /\ pointer'.at.x < positionOf(annotations, selectedId).x + frame.imageX
    /\ pointer'.at.y < positionOf(annotations, selectedId).y + frame.imageY
    => sizeOf(annotations', selectedId) =
           [width |-> px(minResizeSide), height |-> px(minResizeSide)]

(* C15: after any resize update through any of the eight handles the        *)
(* annotation's width and height are both at least 10; the `se` handle     *)
(* dragged above and left of the shape's origin yields width = 10 and      *)
(* height = 10.                                                            *)
ResizeKeepsMinimumSize ==
    [][ResizeUpdate =>
          /\ sizeOf(annotations', selectedId).width >= px(minResizeSide)
          /\ sizeOf(annotations', selectedId).height >= px(minResizeSide)
          /\ SeHandleClampsBoth]_vars

(* C16: while any text field has the focus (the label textarea, the title   *)
(* input above the image or the project-name input of the card header) a   *)
(* Delete or Backspace key press never removes an annotation.              *)
DeleteKeySparesFocusedField ==
    [][~showGallery /\ pointer.focus # "none" /\ pointer'.last = "delete" =>
          annotations' = annotations]_vars

(* C17: whenever an annotation is selected and no text field has the focus, *)
(* a Delete or Backspace key press removes exactly that annotation from    *)
(* the list and sets the selection to null.                                *)
DeleteKeyRemovesSelected ==
    [][/\ ~showGallery /\ pointer.focus = "none" /\ pointer'.last = "delete"
       /\ Find(annotations, selectedId) # <<>>
       => /\ annotations' = SelectSeq(annotations, LAMBDA a : a.id # selectedId)
          /\ selectedId' = NoId]_vars

\* the text of the annotation id in anns
textOf(anns, id) == Find(anns, id)[1].text

(* C18: Escape while a label is edited leaves the annotation's text as it   *)
(* was before editing began (no step of the edit changes the text, and     *)
(* Escape changes no annotation), pushes nothing onto the undo stack and   *)
(* ends label-edit mode; Enter (without Shift) or a blur sets the          *)
(* annotation's text to the edited text.                                   *)
EscapeCancelsEnterCommits ==
    [][~showGallery /\ pointer.focus = "label" =>
          /\ pointer'.last \notin {"enter", "blur"} /\ Find(annotations, editingLabelId) # <<>> =>
                /\ Find(annotations', editingLabelId) # <<>>
                /\ textOf(annotations', editingLabelId) = textOf(annotations, editingLabelId)
          /\ pointer'.last = "escape" =>
                /\ annotations' = annotations
                /\ history' = history
                /\ editingLabelId' = NoId
          /\ pointer'.last \in {"enter", "blur"} /\ Find(annotations, editingLabelId) # <<>> =>
                /\ textOf(annotations', editingLabelId) = editingText
                /\ editingLabelId' = NoId]_vars

\* Escape was pressed after the text of the selected label had been edited
EscapeCancelsEnterCommitsWitness ==
    /\ pointer.last = "escape"
    /\ editingLabelId = NoId
    /\ Find(annotations, selectedId) # <<>>
    /\ textOf(annotations, selectedId) # editingText

(* C19: after clear() the annotation list is empty, and the next add()      *)
(* assigns number 1, whatever the numbers in use before the clear: clear() *)
(* applied to any reachable state gives the empty list, a step that clears *)
(* after an add leaves the list empty, and the first add since a clear is  *)
(* given number 1.                                                         *)
ClearRestartsNumbering ==
    [][/\ clearAnnotations(StoreState, Closure).annotations = <<>>
       /\ lastAdd.made /\ ~lastAdd'.made => annotations' = <<>>
       /\ lastAdd'.made /\ lastAdd'.before = 0 /\ lastAdd' # lastAdd
          => /\ lastAdd'.number = 1
             /\ annotations'[Len(annotations')].number = 1]_vars

\* a list in which number 1 was in use has been emptied and the add that
\* followed the last clear has been given number 1 again
ClearRestartsNumberingWitness ==
    /\ lastAdd.made /\ lastAdd.before = 0
    /\ lastAdd.number = 1
    /\ Len(annotations) = 1
    /\ Len(history) >= 2
    /\ history[Len(history)] = <<>>
    /\ history[Len(history) - 1] # <<>>
    /\ history[Len(history) - 1][1].number = 1

\* the ids a caller may pass: those handed out so far and one never used
KnownIds == (1..nextId) \cup {annotations[i].id : i \in DOMAIN annotations}

\* list is anns without the records of id: nothing else is missing, and what
\* is left is unchanged and in the same order
RemovedOnly(anns, list, id) ==
    /\ Len(list) = Len(anns) - Cardinality({i \in DOMAIN anns : anns[i].id = id})
    /\ \A j \in DOMAIN list : list[j].id # id
    /\ \E f \in [DOMAIN list -> DOMAIN anns] :
         /\ \A j \in DOMAIN list : list[j] = anns[f[j]]
         /\ \A j, k \in DOMAIN list : j < k => f[j] < f[k]

\* list is anns with updates merged into the records of id and nothing else
\* changed: same length, same order
ChangedOnly(anns, list, id, updates) ==
    /\ Len(list) = Len(anns)
    /\ \A i \in DOMAIN anns :
         /\ list[i].id = anns[i].id
         /\ list[i].number = anns[i].number
         /\ anns[i].id # id => list[i] = anns[i]
         /\ anns[i].id = id =>
               \A f \in DOMAIN anns[i] :
                   list[i][f] = IF f \in DOMAIN updates THEN updates[f] ELSE anns[i][f]

(* C20: delete(id) removes exactly the record with that id and leaves every *)
(* other record unchanged, in the same relative order and with the same    *)
(* number; update(id, partial) changes only the matching record and never  *)
(* changes the list's length or order.                                     *)
DeleteUpdateFrame ==
    \A id \in KnownIds :
        /\ RemovedOnly(annotations, deleteAnnotation(StoreState, Closure, id).annotations, id)
        /\ \A t \in Texts :
             ChangedOnly(annotations,
                         updateAnnotation(StoreState, Closure, id, [text |-> t]).annotations,
                         id, [text |-> t])

\* the first of two records has been deleted: the second is left as it was,
\* with number 2
DeleteUpdateFrameWitness ==
    /\ lastMut.made
    /\ Len(lastMut.pre) = 2
    /\ Len(annotations) = 1
    /\ annotations[1] = lastMut.pre[2]
    /\ annotations[1].number = 2

\* the step leaves the list and both stacks as they are
StoreUntouched ==
    /\ annotations' = annotations
    /\ history' = history
    /\ redoStack' = redoStack

(* C21: undo() with an empty undo stack and redo() with an empty redo stack *)
(* leave the annotation list, the undo stack and the redo stack unchanged  *)
(* (the calls are total: they return a state, never an error).             *)
EmptyStacksAreNoOps ==
    [][/\ lastMut'.empty = "undo" => history = <<>> /\ StoreUntouched
       /\ lastMut'.empty = "redo" => redoStack = <<>> /\ StoreUntouched
       /\ history = <<>> => undo(StoreState, Closure) = StoreState
       /\ redoStack = <<>> => redo(StoreState, Closure) = StoreState]_vars

\* redo() has been called on an empty redo stack while the list and the
\* undo stack were not empty
EmptyStacksAreNoOpsWitness ==
    /\ lastMut.empty = "redo"
    /\ redoStack = <<>>
    /\ annotations # <<>>
    /\ history # <<>>


----------------------------------------------------------------------------
\* what a saved list and the store's list are compared on: everything but
\* the id, which addAnnotation always draws afresh
asSaved(anns) == [i \in 1..Len(anns) |-> [anns[i] EXCEPT !.id = NoId]]

(* C22: hydrating the store from a saved project's annotation list and     *)
(* reading the list back gives the same annotations in the same order,     *)
(* each with the number it was saved with.                                  *)
HydrationKeepsNumbers ==
    [][\A k \in 0..MaxLoad :
          handleSelectProject(SavedProject(k)) =>
              asSaved(annotations') = asSaved(SavedProject(k).annotations)]_vars


----------------------------------------------------------------------------
\* the anchor of a rectangle, an ellipse or a freehand stroke lies left of
\* the vertical line through the middle of the image: the centre of the
\* bounding box in image coordinates, the first point of a stroke on the
\* surface, where the strokes are drawn
anchorLeftOfMidline(ann, fr) ==
    IF ann.type = "pencil"
    THEN 2 * ann.points[1].x < 2 * fr.imageX + fr.imageWidth
    ELSE 2 * ann.position.x + ann.size.width < fr.imageWidth

sidedTypes == {"rectangle", "circle", "pencil"}

(* C23: a rectangle, circle or freehand annotation is laid out on the left *)
(* exactly when its anchor x (centre of the bounding box, first point of   *)
(* the stroke) is less than the image's horizontal midline, on the right   *)
(* otherwise.                                                               *)
SideFollowsAnchor ==
    \A k \in DOMAIN rendered :
        rendered[k].ann.type \in sidedTypes =>
            /\ rendered[k].isLeft <=> anchorLeftOfMidline(rendered[k].ann, frame)
            /\ rendered[k].isLeft <=> rendered[k].labelBoxX = px(labelEdgeBuffer)

\* a rectangle on the left, an ellipse on the right, and a stroke that is
\* on the right in this frame
SideFollowsAnchorWitness ==
    /\ \E k \in DOMAIN rendered :
         rendered[k].ann.type = "rectangle" /\ rendered[k].isLeft
    /\ \E k \in DOMAIN rendered :
         rendered[k].ann.type = "circle" /\ ~rendered[k].isLeft
    /\ \E k \in DOMAIN rendered :
         rendered[k].ann.type = "pencil" /\ ~rendered[k].isLeft


----------------------------------------------------------------------------
\* twice the x and y of the centre of a dot on the surface
dotCentre2(ann, fr) ==
    Point(2 * (ann.position.x + fr.imageX) + ann.size.width,
          2 * (ann.position.y + fr.imageY) + ann.size.height)

(* C24: for a dot (solid-circle) the anchor that decides the side, and the *)
(* vertical order of the labels, is the centre of the dot (position plus   *)
(* half the size), the point its connector starts from.                    *)
DotAnchorIsCentre ==
    \A k \in DOMAIN rendered :
        rendered[k].ann.type = "solid-circle" =>
            LET c2 == dotCentre2(rendered[k].ann, frame)
                anchor == getAnnotationCenter(rendered[k].ann, frame)
            IN /\ rendered[k].isLeft <=> c2.x < 2 * frame.imageX + frame.imageWidth
               /\ 2 * anchor.x = c2.x
               /\ 2 * anchor.y = c2.y
               /\ anchor = rendered[k].badgeStart


----------------------------------------------------------------------------
\* the list as it was before any label was dragged
withoutLabelPositions(anns) ==
    [i \in DOMAIN anns |-> [anns[i] EXCEPT !.labelPosition = NoLabelPosition]]

(* C25: once a label drag has stored a labelPosition in an annotation, the *)
(* connector of that annotation ends at the dragged label position (the    *)
(* position is measured from the label badge, which is level with the end  *)
(* of the connector), while the left and right margins are what they are   *)
(* without the labelPosition.                                               *)
DraggedLabelAnchorsConnector ==
    \A k \in DOMAIN rendered :
        rendered[k].ann.labelPosition # NoLabelPosition =>
            /\ rendered[k].labelBadge.x = rendered[k].ann.labelPosition.x
            /\ rendered[k].connectorEnd.y = rendered[k].ann.labelPosition.y
            /\ Last(rendered[k].path).to = rendered[k].connectorEnd
            /\ frame.leftMargin =
                 leftMargin(withoutLabelPositions(annotations), imageWidth, imageHeight)
            /\ frame.rightMargin =
                 rightMargin(withoutLabelPositions(annotations), imageWidth, imageHeight)


----------------------------------------------------------------------------
\* the groups of the rendering r on the side of the k-th
sameSide(r, k) == {j \in DOMAIN r : r[j].isLeft = r[k].isLeft}

\* the place of the k-th group among those of its side, by ascending
\* anchor y (equal anchors in the order of the rendering); ys are the
\* anchor ys of the groups
rankOnSide(r, ys, k) ==
    Cardinality({j \in sameSide(r, k) : ys[j] < ys[k] \/ (ys[j] = ys[k] /\ j < k)})

\* halfway between the start of the connector and the label badge
elbowMidpoint(g) == (g.badgeStart.x + g.labelBadge.x) \div 2

\* the x of the vertical part of the connector, read from its path
elbowX(g) == g.path[2].to.x

elbowsStaggered(r, ys) ==
    \A k \in DOMAIN r :
        LET g == r[k]
            n == Cardinality(sameSide(r, k))
            i == rankOnSide(r, ys, k)
        IN /\ n >= 2 =>
                 elbowX(g) = elbowMidpoint(g) - px(40) + (i * px(80)) \div (n - 1)
           /\ n >= 2 /\ i = 0 => elbowX(g) = elbowMidpoint(g) - px(40)
           /\ n >= 2 /\ i = n - 1 => elbowX(g) = elbowMidpoint(g) + px(40)
           /\ n = 1 => elbowX(g) = elbowMidpoint(g)

anchorYs(r, fr) == [k \in DOMAIN r |-> getAnnotationCenter(r[k].ann, fr).y]

(* C26: with n >= 2 connectors on a side, the i-th of them (from 0, by     *)
(* ascending anchor y on that side) has its elbow at                       *)
(* midpoint - 40 + i * 80 / (n - 1), the midpoint being halfway between    *)
(* the connector's start x and the label badge x: the first at             *)
(* midpoint - 40, the last at midpoint + 40; a single connector has its    *)
(* elbow at the midpoint.                                                   *)
ElbowsAreStaggered == elbowsStaggered(rendered, anchorYs(rendered, frame))

\* the middle one of three connectors on a side, its elbow at the midpoint
middleOfThree(r, ys) ==
    \E k \in DOMAIN r :
        /\ Cardinality(sameSide(r, k)) = 3
        /\ rankOnSide(r, ys, k) = 1
        /\ elbowX(r[k]) = elbowMidpoint(r[k])
        /\ \E j \in sameSide(r, k) : rankOnSide(r, ys, j) = 2 /\ elbowX(r[j]) # elbowX(r[k])

ElbowsAreStaggeredWitness == middleOfThree(rendered, anchorYs(rendered, frame))


----------------------------------------------------------------------------
\* a project is open and its annotation list is empty
emptyCanvas == ~showGallery /\ annotations = <<>>

(* C27: with an empty annotation list the left and the right margin are    *)
(* both 0 and the drawing surface is exactly as wide as the image.         *)
EmptyListHasNoMargins ==
    emptyCanvas =>
        /\ frame.leftMargin = 0
        /\ frame.rightMargin = 0
        /\ frame.svgWidth = imageWidth

(* C27, amended: with an empty annotation list the left and the right      *)
(* margin are both the edge buffer of 40 and the drawing surface is 80     *)
(* wider than the image, which starts at x = 40.                           *)
EmptyListHasBufferMargins ==
    emptyCanvas =>
        /\ frame.leftMargin = px(40)
        /\ frame.rightMargin = px(40)
        /\ frame.svgWidth = imageWidth + px(80)
        /\ frame.imageX = px(40)

\* the last annotation of an opened project has been deleted
EmptyListHasBufferMarginsWitness ==
    /\ emptyCanvas
    /\ imageWidth = px(200)
    /\ history # <<>>
    /\ rendered = <<>>


----------------------------------------------------------------------------
\* the step is a pointer-down with the pointer tool
pointerToolDown == tool = "pointer" /\ ~pointer.pressed /\ pointer'.pressed

\* the pointer-down of the step is handled by the surface's handleMouseDown:
\* it is not taken by the outline of a shape, a label or a resize handle
surfaceDown(fr) ==
    /\ pointerToolDown
    /\ pointer'.label = NoId
    /\ CommitWorld(handleMouseDown(World, fr, pointer'.at))

\* the places in anns of the annotations that contain point
hitsAt(point, anns, fr) == {i \in DOMAIN anns : isPointInAnnotation(point, anns[i], fr)}

\* of the annotations at the places hits, two or more, the last is selected
lastOfSelected(hits, anns) ==
    Cardinality(hits) >= 2 => selectedId' = anns[SetMax(hits)].id

lastHitSelected(point, anns, fr) == lastOfSelected(hitsAt(point, anns, fr), anns)

----------------------------------------------------------------------------
\* no annotation contains the point of the pointer-down: the selection is
\* cleared, the list and the two stacks stay
missDeselects(point, anns, fr) ==
    hitsAt(point, anns, fr) = {} => selectedId' = NoId /\ StoreUntouched

----------------------------------------------------------------------------
\* the step is the release of a rectangle or circle gesture from a to b
\* (points of the surface) that clears the threshold
drawRelease(a, b) ==
    /\ ~showGallery
    /\ pointer'.last = "up"
    /\ gesture.phase = "draw"
    /\ tool \in {"rectangle", "circle"}
    /\ Abs(a.x - b.x) > px(5)
    /\ Abs(a.y - b.y) > px(5)

\* the shape of the gesture from a to b, in image coordinates
shapeOf(a, b, fr) ==
    Annotation(NoId, tool, nextNumber,
               Point(Min(a.x, b.x) - fr.imageX, Min(a.y, b.y) - fr.imageY),
               [width |-> Abs(a.x - b.x), height |-> Abs(a.y - b.y)], <<>>)

\* the shape overlaps the image
overlapsImage(shape, fr) ==
    /\ shape.position.x + shape.size.width > 0
    /\ shape.position.y + shape.size.height > 0
    /\ shape.position.x < fr.imageWidth
    /\ shape.position.y < fr.imageHeight

\* the step appends exactly the annotation shape, under a new id
appendsOne(shape) ==
    /\ Len(annotations') = Len(annotations) + 1
    /\ Front(annotations') = annotations
    /\ [Last(annotations') EXCEPT !.id = NoId] = shape
    /\ \A i \in DOMAIN annotations : annotations[i].id # Last(annotations').id

(* C30: a rectangle or circle draw gesture from a to b, in any direction,  *)
(* that clears the threshold appends exactly one annotation, with position *)
(* (min(ax, bx), min(ay, by)) and size (|ax - bx|, |ay - by|) in image     *)
(* space, empty text and the number the store holds as next number.        *)
DrawAppendsBoundingBox ==
    [][drawRelease(gesture.at, pointer.at) =>
           appendsOne(shapeOf(gesture.at, pointer.at, frame))]_vars

(* C30, amended: such a gesture appends that annotation when its bounding  *)
(* box overlaps the image; a gesture wholly outside the image, in the      *)
(* margin, appends nothing.                                                *)
DrawInsideAppendsBoundingBox ==
    [][drawRelease(gesture.at, pointer.at) =>
           IF overlapsImage(shapeOf(gesture.at, pointer.at, frame), frame)
           THEN appendsOne(shapeOf(gesture.at, pointer.at, frame))
           ELSE annotations' = annotations /\ nextNumber' = nextNumber]_vars

\* a circle has been drawn from the lower left to the upper right: it is
\* the last of the list, with the corner at the minimum of both
DrawInsideAppendsBoundingBoxWitness ==
    /\ pointer.last = "up"
    /\ gesture.phase = "drawn"
    /\ Len(annotations) = 2
    /\ annotations[2].type = "circle"
    /\ annotations[2].position = Point(px(12), px(12))
    /\ annotations[2].size = [width |-> px(138), height |-> px(78)]
    /\ annotations[2].text = <<>>
    /\ annotations[2].number = nextNumber - 1
    /\ gesture.at.y > pointer.at.y
    /\ gesture.at.x < pointer.at.x


----------------------------------------------------------------------------
\* points of the image the hit test is asked about
HitProbes ==
    { Point(px(12), px(12)), Point(px(50), px(50)), Point(px(8), px(4)),
      Point(px(150), px(90)), Point(px(160), px(100)), Point(-px(20), px(50)) }

\* p, a point of the image, lies strictly inside (outside) the rectangle ann
strictlyInside(p, ann) ==
    /\ ann.position.x < p.x /\ p.x < ann.position.x + ann.size.width
    /\ ann.position.y < p.y /\ p.y < ann.position.y + ann.size.height
strictlyOutside(p, ann) ==
    \/ p.x < ann.position.x \/ p.x > ann.position.x + ann.size.width
    \/ p.y < ann.position.y \/ p.y > ann.position.y + ann.size.height

\* ann in another colour, with another text and another number
repainted(ann) == [ann EXCEPT !.color = "#ef4444", !.text = <<2, 2>>, !.number = @ + 7]

hitTestAgrees(anns, fr) ==
    \A i \in DOMAIN anns, p \in HitProbes :
        LET hit == isPointInAnnotation(svgCoords(fr, p), anns[i], fr)
        IN /\ anns[i].type = "rectangle" /\ strictlyInside(p, anns[i]) => hit
           /\ anns[i].type = "rectangle" /\ strictlyOutside(p, anns[i]) => ~hit
           /\ hit = isPointInAnnotation(svgCoords(fr, p), repainted(anns[i]), fr)
           /\ anns[i].type = "pencil" => ~hit

(* C31: for every rectangle annotation isPointInAnnotation is true for     *)
(* every point strictly inside [x, x+w] x [y, y+h] and false for every     *)
(* point strictly outside it, whatever the annotation's colour, text and   *)
(* number; a freehand annotation is never hit.                             *)
HitTestMatchesBounds == hitTestAgrees(annotations, frame)

\* a rectangle with a probe strictly inside and one strictly outside, and a
\* freehand stroke in the list
HitTestMatchesBoundsWitness ==
    /\ \E i \in DOMAIN annotations :
         /\ annotations[i].type = "rectangle"
         /\ \E p \in HitProbes : strictlyInside(p, annotations[i])
         /\ \E p \in HitProbes : strictlyOutside(p, annotations[i])
    /\ \E i \in DOMAIN annotations :
         annotations[i].type = "pencil" /\ Len(annotations[i].points) > 1


----------------------------------------------------------------------------
\* the image of the open project is less than 2 wide or high
tooSmall == ~showGallery /\ (imageWidth < px(2) \/ imageHeight < px(2))

(* C32: when the width or the height of the image is below 2, no label     *)
(* placement and no connector is computed and the drawing surface with its *)
(* pointer handlers is not presented: no step is a pointer event, and no   *)
(* step creates or changes an annotation.                                  *)
SmallImageHasNoSurface ==
    [][/\ tooSmall' => rendered' = <<>>
       /\ tooSmall => /\ pointer' = pointer
                      /\ annotations' = annotations
                      /\ ~drawing' /\ dragging' = null /\ resizing' = null]_vars

\* the project with the image one pixel wide is open
SmallImageHasNoSurfaceWitness ==
    /\ tooSmall
    /\ imageWidth = px(1)
    /\ rendered = <<>>
    /\ pointer = PointerIdle
    /\ events = 0


----------------------------------------------------------------------------
\* the button is held since a pointer-down on the handle resizing.corner of
\* the selected shape
handleHeld ==
    /\ ~showGallery
    /\ pointer.pressed /\ pointer.last = "down"
    /\ resizing # null
    /\ Find(annotations, selectedId) # <<>>
    /\ pointer.at = handlePoint(Find(annotations, selectedId)[1], resizing.corner, frame)

\* the selected shape after the step is what the resize branch makes of it
resizedThrough(before, after, corner, coords, fr) ==
    /\ after # <<>>
    /\ after[1].position = resized(before[1], corner, coords, fr).position
    /\ after[1].size = resized(before[1], corner, coords, fr).size

(* C33: after a pointer-down on a resize handle of the selected shape, the *)
(* pointer-move that follows with the button held resizes the shape        *)
(* through the resize branch; it is never handled as a drag that           *)
(* translates the shape.                                                   *)
HandleMoveResizes ==
    [][handleHeld /\ pointer'.last = "move" =>
           resizedThrough(Find(annotations, selectedId), Find(annotations', selectedId),
                          resizing.corner, pointer'.at, frame)]_vars


----------------------------------------------------------------------------
\* no two groups of the rendering r on one side have the same elbow x
elbowsDistinct(r) ==
    \A j, k \in DOMAIN r :
        j # k /\ r[j].isLeft = r[k].isLeft => elbowX(r[j]) # elbowX(r[k])

(* C34: any two distinct connectors routed to the same side have different *)
(* elbow x-coordinates, whatever the positions of their shapes.            *)
ElbowsAreDistinct == elbowsDistinct(rendered)

-----------------------------------------------------------------------------
\* the numbers of the list anns are pairwise distinct
pairwiseDistinctNumbers(anns) ==
    \A i, j \in DOMAIN anns : i # j => anns[i].number # anns[j].number

(* C35: the addAnnotation calls that handleSelectProject issues in one     *)
(* handler, one per saved annotation after clearAnnotations, leave the     *)
(* annotations of the list with pairwise distinct numbers.                 *)
BatchedAddsGetDistinctNumbers ==
    [][\A k \in 0..MaxLoad :
          handleSelectProject(SavedProject(k)) =>
              pairwiseDistinctNumbers(annotations')]_vars

-----------------------------------------------------------------------------
\* the id is that of an annotation of the list anns
inList(id, anns) == \E i \in DOMAIN anns : anns[i].id = id

(* C36: in every reachable state selectedId is null or the id of an        *)
(* annotation of the current list, also after undo, redo and clear-all.    *)
SelectionIsInList == selectedId = NoId \/ inList(selectedId, annotations)

(* C37: editingLabelId is null or the id of an annotation of the current   *)
(* list, also when the auto-start timer fires after the new annotation was *)
(* removed by undo, delete or clear-all; a committed label edit changes    *)
(* the text of an annotation of the list.                                  *)
EditedLabelIsInList == editingLabelId = NoId \/ inList(editingLabelId, annotations)

-----------------------------------------------------------------------------
\* the annotation passes the leftLabels filter that sizes the left margin
sizesLeftMargin(ann, imgW) == leftLabels(<<ann>>, imgW) # <<>>

(* C38: for every annotation of every kind, the side whose margin its      *)
(* label sizes (leftLabels or rightLabels) is the side on which            *)
(* renderLabelsAndConnectors lays its label out.                           *)
MarginSideIsLayoutSide ==
    \A k \in DOMAIN rendered :
        rendered[k].isLeft <=> sizesLeftMargin(rendered[k].ann, imageWidth)

-----------------------------------------------------------------------------
\* the edges of the shape opposite to the handle are where they were
oppositeEdgeKept(before, after, corner) ==
    /\ corner \in {"w", "nw", "sw"} =>
           after.position.x + after.size.width = before.position.x + before.size.width
    /\ corner \in {"n", "nw", "ne"} =>
           after.position.y + after.size.height = before.position.y + before.size.height

(* C39: a resize through a handle leaves the opposite edge where it was:   *)
(* with w, nw and sw the right edge x + width, with n, nw and ne the       *)
(* bottom edge y + height, for every pointer position, also where the      *)
(* minimum size applies.                                                   *)
ResizeKeepsOppositeEdge ==
    [][handleHeld /\ dragOffset = null /\ dragging = null /\ pointer'.last = "move" =>
           oppositeEdgeKept(Find(annotations, selectedId)[1],
                            Find(annotations', selectedId)[1], resizing.corner)]_vars

-----------------------------------------------------------------------------
\* the project id is open and its list is not the list of its record
unwritten(id) ==
    /\ currentProjectId = id
    /\ asSaved(annotations) # asSaved(galleryProject(id).annotations)

(* C40: every change to the annotation list of an open project is          *)
(* eventually written by the auto-save to that project's record, also a    *)
(* change made less than a second before the user returns to the gallery.  *)
ChangesAreAutoSaved ==
    \A id \in SavedProjectIds :
        unwritten(id) ~> (currentProjectId = id /\ ~unwritten(id))

============================================================================
